---- MODULE Spec2Model ----
(***************************************************************************)
(* A model of Blender's image-buffer allocator                             *)
(* (source/blender/imbuf/intern/allocimbuf.cc): the ImBuf aggregate, its   *)
(* five buffer slots with their three ownership regimes, the mipmap chain, *)
(* and the spin-lock guarded reference counter.                            *)
(*                                                                         *)
(* The heap is four variables: ibufs (the ImBuf structs ever allocated),   *)
(* mem (the memory blocks ever allocated), shr (the implicit-sharing       *)
(* control blocks) and ub (the first undefined behaviour met, if any).     *)
(* Addresses are indices into these sequences; a freed address is handed   *)
(* out again only once nothing live points at it (Start), so a double free *)
(* or a use after free is visible in the state.                            *)
(*                                                                         *)
(* Spec    : threads calling IMB_refImBuf / IMB_freeImBuf on one ImBuf,    *)
(*           step by step through the spin lock.                           *)
(* SeqSpec : one caller using the API sequentially on several ImBufs.      *)
(***************************************************************************)
EXTENDS Integers, Sequences, FiniteSets, TLC

VARIABLES
    ibufs,            \* Seq of ImBuf structs; index = address
    mem,              \* Seq of memory blocks; index = address
    shr,              \* Seq of ImplicitSharingInfo control blocks
    ub,               \* "none", or the first undefined behaviour executed
    last,             \* the last API call of the sequential caller and its result
    refcounter_spin,  \* the SpinLock: NULL when free, else the holding thread
    pc,               \* per thread: where it is inside IMB_refImBuf / IMB_freeImBuf
    tmp,              \* per thread: the refcounter value it loaded
    needs_free,       \* per thread: IMB_freeImBuf's local
    held,             \* per thread: references to the ImBuf it holds
    hist              \* history of the run: calls issued and zero observations of
                      \* the threads; the other holders of shared data (SlotSpec)

vars == <<ibufs, mem, shr, ub, last, refcounter_spin, pc, tmp, needs_free, held, hist>>
heapVars == <<ibufs, mem, shr, ub>>
threadVars == <<refcounter_spin, pc, tmp, needs_free, held, hist>>

----------------------------------------------------------------------------
(* Bounds of the model *)

NThreads == 2          \* threads of Spec
MaxCalls == 3          \* calls issued in a run of Spec
MaxInit == 1           \* initial refcounter of Spec's ImBuf is in 0..MaxInit
MaxBufs == 3           \* ImBuf structs on the heap of SeqSpec
MaxBlocks == 7         \* memory blocks on the heap of SeqSpec
MaxDim == 1            \* x and y are in 1..MaxDim
SizeBits == 20         \* SIZE_MAX is 2^SizeBits - 1 (64 bits on the target)
MaxSeqCalls == 4       \* calls of the single caller in one run
MaxAllocated == 1      \* IMB_allocImBuf is called while fewer ImBufs are live
MaxEncoded == 1        \* bytes an encoder writes are in 1..MaxEncoded
MaxSlotCalls == 3      \* calls of the single caller in one run of SlotSpec
MaxEncCalls == 5       \* calls of the single caller in one run of EncSpec
UintBits == 15         \* UINT_MAX is 2^UintBits - 1 (32 bits on the target)
MaxLoadCalls == 5      \* calls of the single caller in one run of LoadSpec
MaxLoadBufs == 2       \* ImBufs a run of LoadSpec makes
MaxMipCalls == 4       \* calls of the single caller in one run of MipSpec
IMB_MIPMAP_LEVELS == 2 \* capacity of the mipmap array (20 in IMB_imbuf_types.h)

(* Program constants *)

NULL == 0
SizeofUint8 == 1
SizeofFloat == 4
SizeofUint == 4
SizeofInt == 4
ByteChannels == 4
DefaultChannels == 4
EncodedMinSize == 10000
PlanesWithoutZ == 32

Threads == 1..NThreads

IB_DO_NOT_TAKE_OWNERSHIP == "IB_DO_NOT_TAKE_OWNERSHIP"
IB_TAKE_OWNERSHIP == "IB_TAKE_OWNERSHIP"

BufferNames ==
    {"byte_buffer", "float_buffer", "z_buffer", "float_z_buffer", "encoded_buffer"}

\* The flag bit that records each slot.
FlagOf(s) ==
    CASE s = "byte_buffer" -> "IB_rect"
      [] s = "float_buffer" -> "IB_rectfloat"
      [] s = "z_buffer" -> "IB_zbuf"
      [] s = "float_z_buffer" -> "IB_zbuffloat"
      [] s = "encoded_buffer" -> "IB_mem"

----------------------------------------------------------------------------
(* Memory contents: a block's bytes as a run-length encoded sequence of    *)
(* runs [v, n] (n > 0 bytes of value v), adjacent runs of one value merged.*)

RECURSIVE Norm(_)
Norm(c) ==
    IF Len(c) = 0 THEN <<>>
    ELSE IF c[1].n = 0 THEN Norm(Tail(c))
    ELSE IF Len(c) = 1 THEN c
    ELSE LET r == Norm(Tail(c)) IN
         IF Len(r) > 0 /\ r[1].v = c[1].v
         THEN <<[v |-> c[1].v, n |-> c[1].n + r[1].n]>> \o Tail(r)
         ELSE <<c[1]>> \o r

Fill(v, n) == Norm(<<[v |-> v, n |-> n]>>)

RECURSIVE ContentLen(_)
ContentLen(c) == IF Len(c) = 0 THEN 0 ELSE c[1].n + ContentLen(Tail(c))

\* The first n bytes of c (all of c when it is shorter).
RECURSIVE Prefix(_, _)
Prefix(c, n) ==
    IF n <= 0 \/ Len(c) = 0 THEN <<>>
    ELSE IF c[1].n >= n THEN <<[v |-> c[1].v, n |-> n]>>
    ELSE <<c[1]>> \o Prefix(Tail(c), n - c[1].n)

\* c without its first n bytes.
RECURSIVE Drop(_, _)
Drop(c, n) ==
    IF Len(c) = 0 THEN <<>>
    ELSE IF n <= 0 THEN c
    ELSE IF c[1].n > n THEN <<[v |-> c[1].v, n |-> c[1].n - n]>> \o Tail(c)
    ELSE Drop(Tail(c), n - c[1].n)

----------------------------------------------------------------------------
(* The heap as a value, threaded through the operators that model code.    *)
(* failIn counts down the allocations until the one that fails (0: none    *)
(* fails); oom records that an allocation has failed; onUB is what a null  *)
(* memcpy or a failed BLI_assert does in this build ("crash" or "skip");   *)
(* ret and ok hold the pointer and the boolean the last callee returned.   *)

Heap == [ibufs |-> ibufs, mem |-> mem, shr |-> shr, ub |-> ub,
         failIn |-> 0, onUB |-> "crash", oom |-> FALSE, ret |-> NULL, ok |-> TRUE]

SetUB(H, what) == IF H.ub = "none" THEN [H EXCEPT !.ub = what] ELSE H

EmptyBuffer ==
    [data |-> NULL, ownership |-> IB_DO_NOT_TAKE_OWNERSHIP, implicit_sharing |-> NULL]

\* MEM_cnew<ImBuf> followed by IMB_initImBuf's memset: every field zero.
ZeroImBuf ==
    [x |-> 0, y |-> 0, channels |-> 0, planes |-> 0, flags |-> {},
     byte_buffer |-> EmptyBuffer, float_buffer |-> EmptyBuffer,
     z_buffer |-> EmptyBuffer, float_z_buffer |-> EmptyBuffer,
     encoded_buffer |-> EmptyBuffer,
     encoded_size |-> 0, encoded_buffer_size |-> 0,
     mipmap |-> [a \in 1..IMB_MIPMAP_LEVELS |-> NULL], miptot |-> 0,
     refcounter |-> 0,
     metadata |-> NULL, colormanage_cache |-> NULL, dds_data |-> NULL,
     frees |-> 0]

\* A memory block: its size, its bytes, how often it has been freed, and
\* the allocator it came from ("MEM" guarded allocator, "malloc", "extern").
Block(size, bytes, from) ==
    [size |-> size, bytes |-> bytes, frees |-> 0, from |-> from]

\* MEM_freeN / free: the block is released; a second release is a double free.
MEM_freeN(H, p) ==
    LET H1 == [H EXCEPT !.mem[p].frees = @ + 1] IN
    IF H.mem[p].frees > 0 THEN SetUB(H1, "double_free") ELSE H1

\* ImplicitSharingInfo::remove_user_and_delete_if_last
remove_user_and_delete_if_last(H, h) ==
    LET H1 == [H EXCEPT !.shr[h].users = @ - 1] IN
    IF H.shr[h].users = 1
    THEN MEM_freeN([H1 EXCEPT !.shr[h].deleted = @ + 1], H.shr[h].data)
    ELSE IF H.shr[h].users <= 0 THEN SetUB(H, "use_after_free")
    ELSE H1

\* blender::implicit_sharing::free_shared_data on a slot with a handle.
\* free_shared_data that forgets the handle without giving up its user.
free_shared_data_keeps_user(H, i, s) ==
    [H EXCEPT !.ibufs[i][s].implicit_sharing = NULL, !.ibufs[i][s].data = NULL]

free_shared_data(H, i, s) ==
    LET H1 == remove_user_and_delete_if_last(H, H.ibufs[i][s].implicit_sharing) IN
    [H1 EXCEPT !.ibufs[i][s].implicit_sharing = NULL, !.ibufs[i][s].data = NULL]

\* imb_free_buffer without the test of the ownership.
imb_free_buffer_frees_borrowed(H, i, s) ==
    LET buffer == H.ibufs[i][s]
        H1 == IF buffer.implicit_sharing # NULL THEN free_shared_data(H, i, s)
              ELSE IF buffer.data # NULL THEN MEM_freeN(H, buffer.data)
              ELSE H
    IN [H1 EXCEPT !.ibufs[i][s] = EmptyBuffer]

imb_free_buffer(H, i, s) ==
    LET buffer == H.ibufs[i][s]
        H1 == IF buffer.implicit_sharing # NULL THEN free_shared_data(H, i, s)
              ELSE IF buffer.data # NULL /\ buffer.ownership = IB_TAKE_OWNERSHIP
                   THEN MEM_freeN(H, buffer.data)
              ELSE H
    IN [H1 EXCEPT !.ibufs[i][s] = EmptyBuffer]

\* The branch of IMB_freeImBuf's critical section: TRUE when the count is
\* only decremented, FALSE when the caller must tear the ImBuf down.
refcounter_is_shared_off_by_one(rc) == rc > 1
refcounter_is_shared(rc) == rc > 0

RECURSIVE IMB_freeImBuf(_, _)
RECURSIVE freemipmap_from(_, _, _)

\* A loop that stops at miptot instead of IMB_MIPMAP_LEVELS.
RECURSIVE freemipmap_upto_miptot(_, _, _)
freemipmap_upto_miptot(H, i, a) ==
    IF a > H.ibufs[i].miptot THEN H
    ELSE IF H.ibufs[i].mipmap[a] # NULL
         THEN freemipmap_upto_miptot(
                  [IMB_freeImBuf(H, H.ibufs[i].mipmap[a]) EXCEPT !.ibufs[i].mipmap[a] = NULL],
                  i, a + 1)
         ELSE freemipmap_upto_miptot(H, i, a + 1)

\* imb_freemipmapImBuf's loop from level a on.
freemipmap_from(H, i, a) ==
    IF a > IMB_MIPMAP_LEVELS THEN H
    ELSE IF H.ibufs[i].mipmap[a] # NULL
         THEN LET H1 == IMB_freeImBuf(H, H.ibufs[i].mipmap[a]) IN
              freemipmap_from([H1 EXCEPT !.ibufs[i].mipmap[a] = NULL], i, a + 1)
         ELSE freemipmap_from(H, i, a + 1)

imb_freemipmapImBuf(H, i) ==
    [freemipmap_from(H, i, 1) EXCEPT !.ibufs[i].miptot = 0]

ClearFlag(H, i, f) == [H EXCEPT !.ibufs[i].flags = @ \ {f}]
SetFlag(H, i, f) == [H EXCEPT !.ibufs[i].flags = @ \cup {f}]

imb_freerectfloatImBuf(H, i) ==
    IF i = NULL THEN H
    ELSE ClearFlag(imb_freemipmapImBuf(imb_free_buffer(H, i, "float_buffer"), i),
                   i, "IB_rectfloat")

\* A free of the byte pixels that leaves the mipmap levels.
imb_freerectImBuf_keeps_mipmaps(H, i) ==
    IF i = NULL THEN H
    ELSE ClearFlag(imb_free_buffer(H, i, "byte_buffer"), i, "IB_rect")

imb_freerectImBuf(H, i) ==
    IF i = NULL THEN H
    ELSE ClearFlag(imb_freemipmapImBuf(imb_free_buffer(H, i, "byte_buffer"), i),
                   i, "IB_rect")

freeencodedbufferImBuf(H, i) ==
    IF i = NULL THEN H
    ELSE LET H1 == imb_free_buffer(H, i, "encoded_buffer") IN
         ClearFlag([H1 EXCEPT !.ibufs[i].encoded_buffer_size = 0,
                              !.ibufs[i].encoded_size = 0], i, "IB_mem")

IMB_freezbufImBuf(H, i) ==
    IF i = NULL THEN H
    ELSE ClearFlag(imb_free_buffer(H, i, "z_buffer"), i, "IB_zbuf")

IMB_freezbuffloatImBuf(H, i) ==
    IF i = NULL THEN H
    ELSE ClearFlag(imb_free_buffer(H, i, "float_z_buffer"), i, "IB_zbuffloat")

imb_freerectImbuf_all(H, i) ==
    freeencodedbufferImBuf(
        IMB_freezbuffloatImBuf(
            IMB_freezbufImBuf(
                imb_freerectfloatImBuf(
                    imb_freerectImBuf(H, i), i), i), i), i)

\* A handle that is set is released, a null one is skipped.
free_handle(H, p) == IF p = NULL THEN H ELSE MEM_freeN(H, p)

\* IMB_metadata_free(ibuf->metadata)
IMB_metadata_free(H, i) == free_handle(H, H.ibufs[i].metadata)

\* colormanage_cache_free(ibuf)
colormanage_cache_free(H, i) == free_handle(H, H.ibufs[i].colormanage_cache)

\* free(ibuf->dds_data.data), when it is set
free_dds_data(H, i) == free_handle(H, H.ibufs[i].dds_data)

\* MEM_freeN(ibuf)
MEM_freeN_ImBuf(H, i) ==
    IF H.ibufs[i].frees > 0
    THEN SetUB([H EXCEPT !.ibufs[i].frees = @ + 1], "double_free")
    ELSE [H EXCEPT !.ibufs[i].frees = @ + 1]

\* Reading a field of a struct that has been freed is a use after free.
TouchImBuf(H, i) ==
    IF H.ibufs[i].frees > 0 THEN SetUB(H, "use_after_free") ELSE H

\* The needs_free branch of IMB_freeImBuf.
ImBufTeardown(H, i) ==
    MEM_freeN_ImBuf(
        free_dds_data(
            colormanage_cache_free(
                IMB_metadata_free(
                    imb_freerectImbuf_all(TouchImBuf(H, i), i), i), i), i), i)

IMB_freeImBuf(H, i) ==
    IF i = NULL THEN H
    ELSE IF refcounter_is_shared(H.ibufs[i].refcounter)
         THEN [H EXCEPT !.ibufs[i].refcounter = @ - 1]
         ELSE ImBufTeardown(H, i)

\* IMB_refImBuf does not test ibuf: with nullptr it writes through it.
IMB_refImBuf(H, i) ==
    IF i = NULL THEN SetUB(H, "null_dereference")
    ELSE [H EXCEPT !.ibufs[i].refcounter = @ + 1]

----------------------------------------------------------------------------
(* Spec: threads calling IMB_refImBuf and IMB_freeImBuf on ImBuf 1.        *)
(* Every call is split at its shared-memory accesses: taking the lock, the *)
(* load and the store of `refcounter++` / `refcounter--`, releasing the    *)
(* lock, and the teardown IMB_freeImBuf runs after the lock is released.   *)
(* A thread that calls without holding a reference is recorded as misuse.  *)

TheBuf == 1

\* BLI_spin_lock returns once the lock is free.
spin_is_free_unlocked(l) == TRUE
spin_is_free(l) == l = NULL

\* The ImBuf of Spec: the result of IMB_allocImBuf(1, 1, 32, IB_rect),
\* retained c times.
ThreadedImBuf(c) ==
    [ZeroImBuf EXCEPT !.x = 1, !.y = 1, !.channels = DefaultChannels,
                      !.planes = PlanesWithoutZ, !.flags = {"IB_rect"},
                      !.byte_buffer = [data |-> 1, ownership |-> IB_TAKE_OWNERSHIP,
                                       implicit_sharing |-> NULL],
                      !.refcounter = c]

RECURSIVE SumHeld(_, _)
SumHeld(h, n) == IF n = 0 THEN 0 ELSE h[n] + SumHeld(h, n - 1)

NoCall == [op |-> "none", ibuf |-> NULL, ret |-> NULL, oom |-> FALSE]

Init ==
    \E c \in 0..MaxInit :
        /\ ibufs = <<ThreadedImBuf(c)>>
        /\ mem = <<Block(ByteChannels * SizeofUint8, Fill(0, ByteChannels * SizeofUint8), "MEM")>>
        /\ shr = <<>>
        /\ ub = "none"
        /\ last = NoCall
        /\ refcounter_spin = NULL
        /\ pc = [t \in Threads |-> "idle"]
        /\ tmp = [t \in Threads |-> 0]
        /\ needs_free = [t \in Threads |-> FALSE]
        \* the c + 1 references (c retains and the initial owner) are held
        \* by the threads in some way
        /\ held \in {h \in [Threads -> 0..(c + 1)] : SumHeld(h, NThreads) = c + 1}
        /\ hist = [c0 |-> c, nref |-> 0, nfree |-> 0, zero |-> 0, dec |-> 0,
                   misuse |-> FALSE]

CallsLeft == hist.nref + hist.nfree < MaxCalls

\* A thread enters IMB_refImBuf.
Call_IMB_refImBuf(t) ==
    /\ pc[t] = "idle" /\ CallsLeft
    /\ pc' = [pc EXCEPT ![t] = "ref_lock"]
    /\ hist' = [hist EXCEPT !.nref = @ + 1,
                            !.misuse = @ \/ held[t] = 0]
    /\ UNCHANGED <<heapVars, last, refcounter_spin, tmp, needs_free, held>>

\* A thread enters IMB_freeImBuf, giving up one of its references.
Call_IMB_freeImBuf(t) ==
    /\ pc[t] = "idle" /\ CallsLeft
    /\ pc' = [pc EXCEPT ![t] = "free_lock"]
    /\ needs_free' = [needs_free EXCEPT ![t] = FALSE]
    /\ held' = [held EXCEPT ![t] = IF @ > 0 THEN @ - 1 ELSE 0]
    /\ hist' = [hist EXCEPT !.nfree = @ + 1,
                            !.misuse = @ \/ held[t] = 0]
    /\ UNCHANGED <<heapVars, last, refcounter_spin, tmp>>

BLI_spin_lock(t) ==
    /\ pc[t] \in {"ref_lock", "free_lock"}
    /\ spin_is_free(refcounter_spin)
    /\ refcounter_spin' = t
    /\ pc' = [pc EXCEPT ![t] = IF pc[t] = "ref_lock" THEN "ref_load" ELSE "free_test"]
    /\ UNCHANGED <<heapVars, last, tmp, needs_free, held, hist>>

\* A load of ibuf->refcounter yields the field, or, once the struct has been
\* freed, whatever the freed memory holds.
LoadRefcounter ==
    IF ibufs[TheBuf].frees = 0 THEN {ibufs[TheBuf].refcounter} ELSE 0..MaxInit

\* Any access to the struct after it has been freed is a use after free.
AccessImBuf ==
    IF ibufs[TheBuf].frees > 0 /\ ub = "none" THEN "use_after_free" ELSE ub

\* A store to ibuf->refcounter.
StoreRefcounter(v) ==
    /\ ibufs' = [ibufs EXCEPT ![TheBuf].refcounter = v]
    /\ ub' = AccessImBuf

\* IMB_refImBuf, line 307: the load of refcounter++.
ref_load(t) ==
    /\ pc[t] = "ref_load"
    /\ \E v \in LoadRefcounter : tmp' = [tmp EXCEPT ![t] = v]
    /\ ub' = AccessImBuf
    /\ pc' = [pc EXCEPT ![t] = "ref_store"]
    /\ UNCHANGED <<ibufs, mem, shr, last, refcounter_spin, needs_free, held, hist>>

\* IMB_refImBuf, line 307: the store of refcounter++.
ref_store(t) ==
    /\ pc[t] = "ref_store"
    /\ StoreRefcounter(tmp[t] + 1)
    /\ pc' = [pc EXCEPT ![t] = "ref_unlock"]
    /\ UNCHANGED <<mem, shr, last, refcounter_spin, tmp, needs_free, held, hist>>

\* IMB_freeImBuf, lines 279-284: the test, and either the load of
\* refcounter-- or needs_free = true.
free_test(t) ==
    /\ pc[t] = "free_test"
    /\ \E v \in LoadRefcounter :
         /\ tmp' = [tmp EXCEPT ![t] = v]
         /\ IF refcounter_is_shared(v)
            THEN /\ pc' = [pc EXCEPT ![t] = "free_store"]
                 /\ UNCHANGED <<needs_free, hist>>
            ELSE /\ pc' = [pc EXCEPT ![t] = "free_unlock"]
                 /\ needs_free' = [needs_free EXCEPT ![t] = TRUE]
                 /\ hist' = [hist EXCEPT !.zero = @ + 1]
    /\ ub' = AccessImBuf
    /\ UNCHANGED <<ibufs, mem, shr, last, refcounter_spin, held>>

\* IMB_freeImBuf, line 280: the store of refcounter--.
free_store(t) ==
    /\ pc[t] = "free_store"
    /\ StoreRefcounter(tmp[t] - 1)
    /\ pc' = [pc EXCEPT ![t] = "free_unlock"]
    /\ hist' = [hist EXCEPT !.dec = @ + 1]
    /\ UNCHANGED <<mem, shr, last, refcounter_spin, tmp, needs_free, held>>

\* BLI_spin_unlock; IMB_refImBuf returns, and so does IMB_freeImBuf unless
\* needs_free is set. A returned IMB_refImBuf leaves its caller one more
\* reference.
BLI_spin_unlock(t) ==
    /\ pc[t] \in {"ref_unlock", "free_unlock"}
    /\ refcounter_spin' = NULL
    /\ pc' = [pc EXCEPT ![t] = IF pc[t] = "free_unlock" /\ needs_free[t]
                                THEN "free_teardown" ELSE "idle"]
    /\ held' = [held EXCEPT ![t] = IF pc[t] = "ref_unlock" THEN @ + 1 ELSE @]
    /\ UNCHANGED <<heapVars, last, tmp, needs_free, hist>>

\* IMB_freeImBuf, lines 287-301, outside the lock.
free_teardown(t) ==
    /\ pc[t] = "free_teardown"
    /\ LET H == ImBufTeardown(Heap, TheBuf) IN
         /\ ibufs' = H.ibufs /\ mem' = H.mem /\ shr' = H.shr /\ ub' = H.ub
    /\ pc' = [pc EXCEPT ![t] = "idle"]
    /\ UNCHANGED <<last, refcounter_spin, tmp, needs_free, held, hist>>

Next ==
    \E t \in Threads :
        \/ Call_IMB_refImBuf(t)
        \/ Call_IMB_freeImBuf(t)
        \/ BLI_spin_lock(t)
        \/ ref_load(t)
        \/ ref_store(t)
        \/ free_test(t)
        \/ free_store(t)
        \/ BLI_spin_unlock(t)
        \/ free_teardown(t)

Spec == Init /\ [][Next]_vars

AllIdle == \A t \in Threads : pc[t] = "idle"
InTeardown(t) == pc[t] = "free_teardown"
InRetain(t) == pc[t] \in {"ref_lock", "ref_load", "ref_store", "ref_unlock"}

----------------------------------------------------------------------------
(* Claims about the threaded reference counter (Spec) *)

AllBlocksFreedAtMostOnce == \A b \in 1..Len(mem) : mem[b].frees <= 1

\* C1 as claimed: whenever N retains and M releases with M <= c + N have
\* all returned (and no undefined behaviour was executed on the way), the
\* refcounter is c + N - M.
C1_FinalCountForAnyInterleaving ==
    (AllIdle /\ hist.nfree <= hist.c0 + hist.nref /\ ub = "none")
        => ibufs[TheBuf].refcounter = hist.c0 + hist.nref - hist.nfree

\* C1, amended: in every interleaving of N retains and M releases in which
\* no release finds the refcounter at zero, the refcounter after all calls
\* have returned is c + N - M (no update is lost), and the refcounter is
\* never negative in any state.
C1_NoLostUpdate ==
    /\ ibufs[TheBuf].refcounter >= 0
    /\ (AllIdle /\ hist.zero = 0)
           => ibufs[TheBuf].refcounter = hist.c0 + hist.nref - hist.nfree

C1_Witness ==
    /\ AllIdle /\ hist.zero = 0
    /\ hist.nref >= 2 /\ hist.nfree >= 1
    /\ ibufs[TheBuf].refcounter = hist.c0 + hist.nref - hist.nfree

NoTeardownDuringRetain ==
    /\ \A t \in Threads : \A u \in Threads : ~(InTeardown(t) /\ InRetain(u))
    /\ \A t \in Threads : held[t] > 0 => ibufs[TheBuf].frees = 0

\* C3 as claimed: in every reachable state, whatever the callers do.
C3_NoTeardownDuringRetainUnconditional == NoTeardownDuringRetain

\* C3, amended: provided every thread calls IMB_refImBuf and IMB_freeImBuf
\* only while it holds a reference to the ImBuf, teardown never runs while
\* an IMB_refImBuf on it is in flight, and no completed IMB_refImBuf leaves
\* its caller with a freed ImBuf.
C3_NoTeardownDuringRetain == ~hist.misuse => NoTeardownDuringRetain

\* A retain is in flight while another thread releases, and later the last
\* release tears the ImBuf down.
C3_Witness ==
    /\ ~hist.misuse
    /\ \E t \in Threads : InTeardown(t)
    /\ hist.nref >= 1 /\ hist.dec >= 1

----------------------------------------------------------------------------
(* Allocation *)

SIZE_MAX == 2^SizeBits - 1

\* The guarded allocator: the failIn-th allocation of a call fails.
AllocationFails(H) == H.failIn = 1
AllocationFailed(H) == [H EXCEPT !.failIn = 0, !.oom = TRUE, !.ret = NULL]
AllocationCounted(H) == [H EXCEPT !.failIn = IF @ > 1 THEN @ - 1 ELSE 0]

\* MEM_callocN(size): a fresh block of size zero bytes, or NULL.
MEM_callocN(H, size) ==
    IF AllocationFails(H) THEN AllocationFailed(H)
    ELSE [AllocationCounted(H) EXCEPT
              !.mem = Append(@, Block(size, Fill(0, size), "MEM")),
              !.ret = Len(H.mem) + 1]

\* The overflow guard of imb_alloc_pixels.
pixels_fit(smax, x, y, channels, typesize) ==
    x * y < smax \div ((channels * typesize) % (smax + 1))

imb_alloc_pixels(H, x, y, channels, typesize) ==
    IF (channels * typesize) % (SIZE_MAX + 1) = 0
    THEN SetUB([H EXCEPT !.ret = NULL], "division_by_zero")
    ELSE IF ~pixels_fit(SIZE_MAX, x, y, channels, typesize)
    THEN [H EXCEPT !.ret = NULL]
    ELSE MEM_callocN(H, (x * y * channels * typesize) % (SIZE_MAX + 1))

\* imb_alloc_buffer after the call of imb_alloc_pixels: H.ret is its result.
imb_alloc_buffer_assign(H, i, s) ==
    IF H.ret = NULL
    THEN [H EXCEPT !.ibufs[i][s].data = NULL, !.ok = FALSE]
    ELSE [H EXCEPT !.ibufs[i][s] = [data |-> H.ret, ownership |-> IB_TAKE_OWNERSHIP,
                                   implicit_sharing |-> NULL],
                   !.ok = TRUE]

imb_alloc_buffer(H, i, s, x, y, channels, type_size) ==
    imb_alloc_buffer_assign(imb_alloc_pixels(H, x, y, channels, type_size), i, s)

\* What addzbufImBuf returns after a successful allocation (line 347).
addzbufImBuf_reports == FALSE

\* addzbufImBuf after imb_alloc_buffer.
addzbufImBuf_end(H, i) ==
    IF ~H.ok THEN H
    ELSE [SetFlag(H, i, "IB_zbuf") EXCEPT !.ok = addzbufImBuf_reports]

addzbufImBuf(H, i) ==
    IF i = NULL THEN [H EXCEPT !.ok = FALSE]
    ELSE addzbufImBuf_end(
             imb_alloc_buffer(IMB_freezbufImBuf(H, i), i, "z_buffer",
                              H.ibufs[i].x, H.ibufs[i].y, 1, SizeofUint), i)

addzbuffloatImBuf_end(H, i) ==
    IF ~H.ok THEN H ELSE SetFlag(H, i, "IB_zbuffloat")

addzbuffloatImBuf(H, i) ==
    IF i = NULL THEN [H EXCEPT !.ok = FALSE]
    ELSE addzbuffloatImBuf_end(
             imb_alloc_buffer(IMB_freezbuffloatImBuf(H, i), i, "float_z_buffer",
                              H.ibufs[i].x, H.ibufs[i].y, 1, SizeofFloat), i)

imb_addencodedbufferImBuf_end(H, i) ==
    IF ~H.ok THEN H ELSE SetFlag(H, i, "IB_mem")

\* imb_addencodedbufferImBuf after freeencodedbufferImBuf: lines 375-381.
imb_addencodedbufferImBuf_alloc(H, i) ==
    imb_alloc_buffer(
        [H EXCEPT !.ibufs[i].encoded_buffer_size = IF @ = 0 THEN EncodedMinSize ELSE @,
                  !.ibufs[i].encoded_size = 0],
        i, "encoded_buffer",
        IF H.ibufs[i].encoded_buffer_size = 0 THEN EncodedMinSize
        ELSE H.ibufs[i].encoded_buffer_size,
        1, 1, SizeofUint8)

imb_addencodedbufferImBuf(H, i) ==
    IF i = NULL THEN [H EXCEPT !.ok = FALSE]
    ELSE imb_addencodedbufferImBuf_end(
             imb_addencodedbufferImBuf_alloc(freeencodedbufferImBuf(H, i), i), i)

imb_addrectfloatImBuf_end(H, i, channels) ==
    IF ~H.ok THEN H
    ELSE SetFlag([H EXCEPT !.ibufs[i].channels = channels], i, "IB_rectfloat")

imb_addrectfloatImBuf(H, i, channels) ==
    IF i = NULL THEN [H EXCEPT !.ok = FALSE]
    ELSE imb_addrectfloatImBuf_end(
             imb_alloc_buffer(
                 IF H.ibufs[i].float_buffer.data # NULL
                 THEN imb_freerectfloatImBuf(H, i) ELSE H,
                 i, "float_buffer", H.ibufs[i].x, H.ibufs[i].y, channels, SizeofFloat),
             i, channels)

imb_addrectImBuf_end(H, i) ==
    IF ~H.ok THEN H
    ELSE IF H.ibufs[i].planes > PlanesWithoutZ
         THEN addzbufImBuf(SetFlag(H, i, "IB_rect"), i)
         ELSE SetFlag(H, i, "IB_rect")

imb_addrectImBuf(H, i) ==
    IF i = NULL THEN [H EXCEPT !.ok = FALSE]
    ELSE imb_addrectImBuf_end(
             imb_alloc_buffer(imb_free_buffer(H, i, "byte_buffer"), i, "byte_buffer",
                              H.ibufs[i].x, H.ibufs[i].y, ByteChannels, SizeofUint8), i)

\* IMB_initImBuf, lines 688-699.
IMB_initImBuf_fields(H, i, x, y, planes) ==
    [H EXCEPT !.ibufs[i] = [ZeroImBuf EXCEPT !.x = x, !.y = y, !.planes = planes,
                                             !.channels = DefaultChannels],
              !.ok = TRUE]

\* IMB_initImBuf, lines 701-723: each step runs unless an earlier one failed.
IMB_initImBuf_rect(H, i, flags) ==
    IF "IB_rect" \in flags THEN imb_addrectImBuf(H, i) ELSE H

IMB_initImBuf_rectfloat(H, i, flags) ==
    IF H.ok /\ "IB_rectfloat" \in flags
    THEN imb_addrectfloatImBuf(H, i, H.ibufs[i].channels) ELSE H

IMB_initImBuf_zbuf(H, i, flags) ==
    IF H.ok /\ "IB_zbuf" \in flags THEN addzbufImBuf(H, i) ELSE H

IMB_initImBuf_zbuffloat(H, i, flags) ==
    IF H.ok /\ "IB_zbuffloat" \in flags THEN addzbuffloatImBuf(H, i) ELSE H

IMB_initImBuf(H, i, x, y, planes, flags) ==
    IMB_initImBuf_zbuffloat(
        IMB_initImBuf_zbuf(
            IMB_initImBuf_rectfloat(
                IMB_initImBuf_rect(
                    IMB_initImBuf_fields(H, i, x, y, planes), i, flags), i, flags),
            i, flags), i, flags)

\* MEM_cnew<ImBuf>
MEM_cnew_ImBuf(H) ==
    IF AllocationFails(H) THEN AllocationFailed(H)
    ELSE [AllocationCounted(H) EXCEPT !.ibufs = Append(@, ZeroImBuf),
                                      !.ret = Len(H.ibufs) + 1]

\* IMB_allocImBuf, lines 677-683: a failed init frees the struct.
IMB_allocImBuf_leaks(H, i) ==
    IF H.ok THEN [H EXCEPT !.ret = i] ELSE [H EXCEPT !.ret = NULL]
IMB_allocImBuf_end(H, i) ==
    IF H.ok THEN [H EXCEPT !.ret = i]
    ELSE [IMB_freeImBuf(H, i) EXCEPT !.ret = NULL]

IMB_allocImBuf_init(H, x, y, planes, flags) ==
    IF H.ret = NULL THEN H
    ELSE IMB_allocImBuf_end(IMB_initImBuf(H, H.ret, x, y, planes, flags), H.ret)

IMB_allocImBuf(H, x, y, planes, flags) ==
    IMB_allocImBuf_init(MEM_cnew_ImBuf(H), x, y, planes, flags)

----------------------------------------------------------------------------
(* Duplication *)

\* memcpy(dst, src, n) between two live blocks that hold n bytes each.
memcpy_bytes(H, dst, src, n) ==
    [H EXCEPT !.mem[dst].bytes = Norm(Prefix(H.mem[src].bytes, n) \o Drop(@, n))]

\* memcpy(dst, src, n). A null pointer with n > 0, a freed block, or a block
\* shorter than n is undefined behaviour.
memcpy(H, dst, src, n) ==
    IF dst = NULL \/ src = NULL
    THEN IF n = 0 \/ H.onUB = "skip" THEN H ELSE SetUB(H, "null_dereference")
    ELSE IF H.mem[dst].frees > 0 \/ H.mem[src].frees > 0
    THEN SetUB(H, "use_after_free")
    ELSE IF n > H.mem[dst].size
    THEN SetUB(memcpy_bytes(H, dst, src, H.mem[dst].size), "heap_overflow")
    ELSE IF n > H.mem[src].size
    THEN SetUB(memcpy_bytes(H, dst, src, H.mem[src].size), "heap_overread")
    ELSE memcpy_bytes(H, dst, src, n)

PixelBuffers == {"byte_buffer", "float_buffer", "z_buffer", "float_z_buffer"}

\* IMB_dupImBuf, lines 743-754: the flags of the populated pixel slots.
IMB_dupImBuf_flags(ibuf1) == {FlagOf(s) : s \in {b \in PixelBuffers : ibuf1[b].data # NULL}}

\* The source slot of the memcpy under `flags & IB_zbuffloat` (line 779).
zbuffloat_copy_slot == "float_buffer"

IMB_dupImBuf_rect(H, i1, i2, flags) ==
    IF "IB_rect" \in flags
    THEN memcpy(H, H.ibufs[i2].byte_buffer.data, H.ibufs[i1].byte_buffer.data,
                H.ibufs[i1].x * H.ibufs[i1].y * ByteChannels * SizeofUint8)
    ELSE H

IMB_dupImBuf_rectfloat(H, i1, i2, flags) ==
    IF "IB_rectfloat" \in flags
    THEN memcpy(H, H.ibufs[i2].float_buffer.data, H.ibufs[i1].float_buffer.data,
                H.ibufs[i1].channels * H.ibufs[i1].x * H.ibufs[i1].y * SizeofFloat)
    ELSE H

IMB_dupImBuf_zbuf(H, i1, i2, flags) ==
    IF "IB_zbuf" \in flags
    THEN memcpy(H, H.ibufs[i2].z_buffer.data, H.ibufs[i1].z_buffer.data,
                H.ibufs[i1].x * H.ibufs[i1].y * SizeofInt)
    ELSE H

IMB_dupImBuf_zbuffloat(H, i1, i2, flags) ==
    IF "IB_zbuffloat" \in flags
    THEN memcpy(H, H.ibufs[i2][zbuffloat_copy_slot].data,
                H.ibufs[i1][zbuffloat_copy_slot].data,
                H.ibufs[i1].x * H.ibufs[i1].y * SizeofFloat)
    ELSE H

\* IMB_dupImBuf, lines 784-789, after imb_addencodedbufferImBuf(ibuf2).
IMB_dupImBuf_encoded_copy(H, i1, i2) ==
    IF ~H.ok THEN [IMB_freeImBuf(H, i2) EXCEPT !.ok = FALSE]
    ELSE memcpy(H, H.ibufs[i2].encoded_buffer.data, H.ibufs[i1].encoded_buffer.data,
                H.ibufs[i1].encoded_size)

\* IMB_dupImBuf, lines 782-790.
IMB_dupImBuf_encoded(H, i1, i2) ==
    IF H.ibufs[i1].encoded_buffer.data # NULL
    THEN IMB_dupImBuf_encoded_copy(
             imb_addencodedbufferImBuf(
                 [H EXCEPT !.ibufs[i2].encoded_buffer_size =
                               H.ibufs[i1].encoded_buffer_size], i2), i1, i2)
    ELSE [H EXCEPT !.ok = TRUE]

NoMipmaps == [a \in 1..IMB_MIPMAP_LEVELS |-> NULL]

\* IMB_dupImBuf, lines 793-813: tbuf = *ibuf1 with the pointers fixed.
IMB_dupImBuf_tbuf_shares_byte_buffer(ibuf1, ibuf2) ==
    [ibuf1 EXCEPT !.float_buffer = ibuf2.float_buffer,
                  !.encoded_buffer = ibuf2.encoded_buffer,
                  !.z_buffer = ibuf2.z_buffer,
                  !.float_z_buffer = ibuf2.float_z_buffer,
                  !.mipmap = NoMipmaps,
                  !.dds_data = NULL,
                  !.refcounter = 0,
                  !.metadata = NULL,
                  !.colormanage_cache = NULL,
                  !.frees = ibuf2.frees]
IMB_dupImBuf_tbuf(ibuf1, ibuf2) ==
    [ibuf1 EXCEPT !.byte_buffer = ibuf2.byte_buffer,
                  !.float_buffer = ibuf2.float_buffer,
                  !.encoded_buffer = ibuf2.encoded_buffer,
                  !.z_buffer = ibuf2.z_buffer,
                  !.float_z_buffer = ibuf2.float_z_buffer,
                  !.mipmap = NoMipmaps,
                  !.dds_data = NULL,
                  !.refcounter = 0,
                  !.metadata = NULL,
                  !.colormanage_cache = NULL,
                  !.frees = ibuf2.frees]

\* IMB_dupImBuf, lines 815-817: *ibuf2 = tbuf; return ibuf2 (or the nullptr
\* of line 786).
IMB_dupImBuf_end(H, i1, i2) ==
    IF ~H.ok THEN [H EXCEPT !.ret = NULL]
    ELSE [H EXCEPT !.ibufs[i2] = IMB_dupImBuf_tbuf(H.ibufs[i1], H.ibufs[i2]),
                   !.ret = i2]

\* IMB_dupImBuf, lines 760-817, H.ret being the result of IMB_allocImBuf.
IMB_dupImBuf_copy(H, i1, flags) ==
    IF H.ret = NULL THEN H
    ELSE IMB_dupImBuf_end(
             IMB_dupImBuf_encoded(
                 IMB_dupImBuf_zbuffloat(
                     IMB_dupImBuf_zbuf(
                         IMB_dupImBuf_rectfloat(
                             IMB_dupImBuf_rect(H, i1, H.ret, flags),
                             i1, H.ret, flags),
                         i1, H.ret, flags),
                     i1, H.ret, flags),
                 i1, H.ret),
             i1, H.ret)

IMB_dupImBuf(H, i1) ==
    IF i1 = NULL THEN [H EXCEPT !.ret = NULL]
    ELSE IMB_dupImBuf_copy(
             IMB_allocImBuf(H, H.ibufs[i1].x, H.ibufs[i1].y, H.ibufs[i1].planes,
                            IMB_dupImBuf_flags(H.ibufs[i1])),
             i1, IMB_dupImBuf_flags(H.ibufs[i1]))

\* IMB_metadata_copy(dst, src): the destination gets a copy of the source's
\* metadata, when the source has any.
IMB_metadata_copy(H, dst, src) ==
    IF dst = NULL \/ H.ibufs[src].metadata = NULL THEN H
    ELSE [H EXCEPT !.mem = Append(@, Block(0, <<>>, "metadata")),
                   !.ibufs[dst].metadata = Len(H.mem) + 1]

\* IMB_makeSingleUser, lines 326-330, H.ret being the result of IMB_dupImBuf.
IMB_makeSingleUser_end(H, i) ==
    [IMB_freeImBuf(IMB_metadata_copy(H, H.ret, i), i) EXCEPT !.ret = H.ret]

IMB_makeSingleUser(H, i) ==
    IF i = NULL THEN [H EXCEPT !.ret = NULL]
    ELSE IF H.ibufs[i].refcounter = 0 THEN [H EXCEPT !.ret = i]
    ELSE IMB_makeSingleUser_end(IMB_dupImBuf(H, i), i)

----------------------------------------------------------------------------
(* Assignment of caller memory to a pixel slot *)

\* IMB_assign_byte_buffer, IMB_assign_float_buffer, IMB_assign_z_buffer and
\* IMB_assign_float_z_buffer, s being the slot each is written for.
\* The assignment with the ownership argument ignored.
IMB_assign_buffer_data_takes_ownership(H, i, s, buffer_data, ownership) ==
    IF buffer_data = NULL THEN H
    ELSE SetFlag([H EXCEPT !.ibufs[i][s].data = buffer_data,
                           !.ibufs[i][s].ownership = IB_TAKE_OWNERSHIP], i, FlagOf(s))

IMB_assign_buffer_data(H, i, s, buffer_data, ownership) ==
    IF buffer_data = NULL THEN H
    ELSE SetFlag([H EXCEPT !.ibufs[i][s].data = buffer_data,
                           !.ibufs[i][s].ownership = ownership], i, FlagOf(s))

IMB_assign_buffer(H, i, s, buffer_data, ownership) ==
    IF i = NULL THEN SetUB(H, "null_dereference")
    ELSE IMB_assign_buffer_data(ClearFlag(imb_free_buffer(H, i, s), i, FlagOf(s)),
                                i, s, buffer_data, ownership)

\* blender::implicit_sharing::copy_shared_pointer into an emptied slot: the
\* slot points at the data and is one more user of the control block.
\* copy_shared_pointer without the new user.
copy_shared_pointer_adds_no_user(H, i, s, buffer_data, h) ==
    [H EXCEPT !.ibufs[i][s].data = buffer_data,
              !.ibufs[i][s].implicit_sharing = h]

copy_shared_pointer(H, i, s, buffer_data, h) ==
    [H EXCEPT !.ibufs[i][s].data = buffer_data,
              !.ibufs[i][s].implicit_sharing = h,
              !.shr[h].users = @ + 1]

\* imb_assign_shared_buffer after its imb_free_buffer: lines 168-180.
imb_assign_shared_buffer_set(H, i, s, buffer_data, h) ==
    IF h # NULL
    THEN [copy_shared_pointer(H, i, s, buffer_data, h) EXCEPT
              !.ibufs[i][s].ownership = IB_DO_NOT_TAKE_OWNERSHIP]
    ELSE [H EXCEPT !.ibufs[i][s] = EmptyBuffer]

imb_assign_shared_buffer(H, i, s, buffer_data, h) ==
    imb_assign_shared_buffer_set(imb_free_buffer(H, i, s), i, s, buffer_data, h)

\* IMB_assign_shared_byte_buffer, IMB_assign_shared_float_buffer and
\* IMB_assign_shared_float_z_buffer, after the slot has been freed.
IMB_assign_shared_buffer_data(H, i, s, buffer_data, h) ==
    IF buffer_data = NULL THEN H
    ELSE SetFlag(imb_assign_shared_buffer(H, i, s, buffer_data, h), i, FlagOf(s))

IMB_assign_shared_buffer(H, i, s, buffer_data, h) ==
    IF i = NULL THEN SetUB(H, "null_dereference")
    ELSE IMB_assign_shared_buffer_data(
             ClearFlag(imb_free_buffer(H, i, s), i, FlagOf(s)), i, s, buffer_data, h)

----------------------------------------------------------------------------
(* SeqSpec: one caller using the API. The caller passes NULL or an ImBuf   *)
(* it holds a reference to; a run ends at the first undefined behaviour.   *)

PixelFlags == {"IB_rect", "IB_rectfloat", "IB_zbuf", "IB_zbuffloat"}
PlanesValues == {PlanesWithoutZ, PlanesWithoutZ + 1}
Dims == 1..MaxDim

HandleFields == {"metadata", "colormanage_cache", "dds_data"}

LiveImBufs == {i \in 1..Len(ibufs) : ibufs[i].frees = 0}

\* The mipmap entries of live ImBufs that point at i.
MipmapOwners(i) ==
    {pa \in LiveImBufs \X (1..IMB_MIPMAP_LEVELS) : ibufs[pa[1]].mipmap[pa[2]] = i}

\* The references to i that the caller holds: all but the mipmap entries'.
CallerRefs(i) == ibufs[i].refcounter + 1 - Cardinality(MipmapOwners(i))

CallerImBufs == {i \in LiveImBufs : CallerRefs(i) > 0}

\* The allocator reuses memory: a freed ImBuf, control block or block at the
\* end of the heap that nothing live points at is gone when the next call
\* starts, and its address is handed out again.
LiveOf(H) == {i \in 1..Len(H.ibufs) : H.ibufs[i].frees = 0}

ReferencedImBufs(H) ==
    {H.ibufs[i].mipmap[a] : i \in LiveOf(H), a \in 1..IMB_MIPMAP_LEVELS}

ReferencedHandles(H) ==
    {H.ibufs[i][s].implicit_sharing : i \in LiveOf(H), s \in BufferNames}

ReferencedBlocks(H) ==
    {H.ibufs[i][s].data : i \in LiveOf(H), s \in BufferNames}
        \cup {H.ibufs[i][f] : i \in LiveOf(H), f \in HandleFields}
        \cup {H.shr[h].data : h \in 1..Len(H.shr)}

RECURSIVE ReuseImBufs(_)
ReuseImBufs(H) ==
    IF Len(H.ibufs) > 0 /\ H.ibufs[Len(H.ibufs)].frees > 0
                        /\ Len(H.ibufs) \notin ReferencedImBufs(H)
    THEN ReuseImBufs([H EXCEPT !.ibufs = SubSeq(@, 1, Len(@) - 1)])
    ELSE H

RECURSIVE ReuseHandles(_)
ReuseHandles(H) ==
    IF Len(H.shr) > 0 /\ H.shr[Len(H.shr)].deleted > 0
                      /\ Len(H.shr) \notin ReferencedHandles(H)
    THEN ReuseHandles([H EXCEPT !.shr = SubSeq(@, 1, Len(@) - 1)])
    ELSE H

RECURSIVE ReuseBlocks(_)
ReuseBlocks(H) ==
    IF Len(H.mem) > 0 /\ H.mem[Len(H.mem)].frees > 0
                      /\ Len(H.mem) \notin ReferencedBlocks(H)
    THEN ReuseBlocks([H EXCEPT !.mem = SubSeq(@, 1, Len(@) - 1)])
    ELSE H

\* The heap a call starts from.
Start == ReuseBlocks(ReuseHandles(ReuseImBufs(Heap)))

\* The size in bytes the pixel slot s of ImBuf i is expected to have.
SlotSize(i, s) ==
    CASE s = "byte_buffer" -> ibufs[i].x * ibufs[i].y * ByteChannels * SizeofUint8
      [] s = "float_buffer" -> ibufs[i].x * ibufs[i].y * ibufs[i].channels * SizeofFloat
      [] s = "z_buffer" -> ibufs[i].x * ibufs[i].y * SizeofInt
      [] s = "float_z_buffer" -> ibufs[i].x * ibufs[i].y * SizeofFloat

\* The caller may make another call: the run has met no undefined behaviour
\* and is shorter than MaxSeqCalls calls.
CanCall == ub = "none" /\ last.n < MaxSeqCalls

CanAllocate(nbufs, nblocks) ==
    /\ CanCall
    /\ Len(Start.ibufs) + nbufs <= MaxBufs
    /\ Len(Start.mem) + nblocks <= MaxBlocks

Call(op, i) ==
    [op |-> op, ibuf |-> i, ret |-> NULL, ok |-> TRUE, oom |-> FALSE,
     flags |-> {}, planes |-> 0, slot |-> "none", n |-> 0,
     ibufs0 |-> Len(Start.ibufs), mem0 |-> Len(Start.mem)]

\* The call returns: the heap H is the new state.
Return(H, call) ==
    /\ ibufs' = H.ibufs
    /\ mem' = H.mem
    /\ shr' = H.shr
    /\ ub' = H.ub
    /\ last' = [call EXCEPT !.ret = H.ret, !.ok = H.ok, !.oom = H.oom,
                            !.n = last.n + 1]
    /\ UNCHANGED threadVars

SeqInit ==
    /\ ibufs = <<>>
    /\ mem = <<>>
    /\ shr = <<>>
    /\ ub = "none"
    /\ last = Call("none", NULL)
    /\ refcounter_spin = NULL
    /\ pc = [t \in Threads |-> "idle"]
    /\ tmp = [t \in Threads |-> 0]
    /\ needs_free = [t \in Threads |-> FALSE]
    /\ held = [t \in Threads |-> 0]
    /\ hist = [c0 |-> 0, nref |-> 0, nfree |-> 0, zero |-> 0, dec |-> 0,
               misuse |-> FALSE]

\* The allocations IMB_allocImBuf(.., planes, flags) asks for at most.
AllocationsOf(planes, flags) ==
    1 + Cardinality(flags)
      + (IF "IB_rect" \in flags /\ planes > PlanesWithoutZ THEN 1 ELSE 0)

Do_IMB_allocImBuf ==
    \E x \in Dims, y \in Dims, planes \in PlanesValues, flags \in SUBSET PixelFlags :
        /\ CanAllocate(1, AllocationsOf(planes, flags) - 1)
        /\ Cardinality(LiveImBufs) < MaxAllocated
        /\ \E failIn \in 0..AllocationsOf(planes, flags) :
               Return(IMB_allocImBuf([Start EXCEPT !.failIn = failIn], x, y, planes, flags),
                      [Call("IMB_allocImBuf", NULL) EXCEPT !.flags = flags,
                                                          !.planes = planes])

Do_IMB_refImBuf ==
    /\ CanCall
    /\ \E i \in CallerImBufs \cup {NULL} :
           IF i = NULL
           THEN Return(SetUB(Start, "null_dereference"), Call("IMB_refImBuf", i))
           ELSE /\ ibufs[i].refcounter < MaxInit + 1
                /\ Return(IMB_refImBuf(Start, i), Call("IMB_refImBuf", i))

Do_IMB_freeImBuf ==
    /\ CanCall
    /\ \E i \in CallerImBufs \cup {NULL} :
           Return(IMB_freeImBuf(Start, i), Call("IMB_freeImBuf", i))

\* The populated slots of ImBuf i.
Populated(i) == {s \in BufferNames : ibufs[i][s].data # NULL}

Do_IMB_dupImBuf ==
    \E i \in CallerImBufs \cup {NULL} :
        /\ CanAllocate(1, IF i = NULL THEN 0 ELSE Cardinality(Populated(i)) + 1)
        /\ \E failIn \in 0..(IF i = NULL THEN 0 ELSE Cardinality(Populated(i)) + 2),
              onUB \in {"crash", "skip"} :
               Return(IMB_dupImBuf([Start EXCEPT !.failIn = failIn, !.onUB = onUB], i),
                      Call("IMB_dupImBuf", i))

Do_IMB_makeSingleUser ==
    \E i \in CallerImBufs \cup {NULL} :
        /\ CanAllocate(1, IF i = NULL THEN 0 ELSE Cardinality(Populated(i)) + 2)
        /\ \E failIn \in 0..(IF i = NULL THEN 0 ELSE Cardinality(Populated(i)) + 2),
              onUB \in {"crash", "skip"} :
               Return(IMB_makeSingleUser([Start EXCEPT !.failIn = failIn, !.onUB = onUB], i),
                      Call("IMB_makeSingleUser", i))

\* The caller hands memory of its own to a pixel slot: a block of the
\* slot's size holding the caller's data.
CallerBlock(H, size, from) ==
    [H EXCEPT !.mem = Append(@, Block(size, Fill(1, size), from))]

Do_IMB_assign_buffer ==
    /\ CanAllocate(0, 1)
    /\ \E i \in CallerImBufs, s \in PixelBuffers,
          ownership \in {IB_TAKE_OWNERSHIP, IB_DO_NOT_TAKE_OWNERSHIP} :
           Return(IMB_assign_buffer(
                      CallerBlock(Start, SlotSize(i, s),
                                  IF ownership = IB_TAKE_OWNERSHIP THEN "MEM" ELSE "extern"),
                      i, s, Len(Start.mem) + 1, ownership),
                  [Call("IMB_assign_buffer", i) EXCEPT !.slot = s])

\* Another holder creates implicitly shared data of the slot's size: the
\* block and its control block, with that holder as the one user.
SharedBlock(H, size) ==
    [H EXCEPT !.mem = Append(@, Block(size, Fill(1, size), "MEM")),
              !.shr = Append(@, [users |-> 1, data |-> Len(H.mem) + 1, deleted |-> 0])]

Do_IMB_assign_shared_buffer ==
    /\ CanCall
    /\ \E i \in CallerImBufs, s \in PixelBuffers \ {"z_buffer"} :
           \/ /\ CanAllocate(0, 1)
              /\ Return(IMB_assign_shared_buffer(SharedBlock(Start, SlotSize(i, s)),
                                                 i, s, Len(Start.mem) + 1, Len(Start.shr) + 1),
                        [Call("IMB_assign_shared_buffer", i) EXCEPT !.slot = s])
           \/ \E h \in 1..Len(shr) :
                  /\ shr[h].users > 0
                  /\ mem[shr[h].data].size = SlotSize(i, s)
                  /\ Return(IMB_assign_shared_buffer(Start, i, s, shr[h].data, h),
                            [Call("IMB_assign_shared_buffer", i) EXCEPT !.slot = s])

\* The mipmap generator (IMB_makemipmap) adds the next level to ImBuf i.
MakeMipmap_set(H, i, a) ==
    IF H.ret = NULL THEN H
    ELSE [H EXCEPT !.ibufs[i].mipmap[a] = H.ret, !.ibufs[i].miptot = a]

Do_IMB_makemipmap ==
    \E i \in CallerImBufs :
        /\ ibufs[i].miptot < IMB_MIPMAP_LEVELS
        /\ ibufs[i].byte_buffer.data # NULL
        /\ CanAllocate(1, 1)
        /\ Return(MakeMipmap_set(
                      IMB_allocImBuf(Start, ibufs[i].x, ibufs[i].y, PlanesWithoutZ, {"IB_rect"}),
                      i, ibufs[i].miptot + 1),
                  Call("IMB_makemipmap", i))

\* A collaborator attaches metadata, a colour-management cache or a DDS
\* payload to ImBuf i.
AttachHandle(H, i, f) ==
    [H EXCEPT !.mem = Append(@, Block(0, <<>>, f)), !.ibufs[i][f] = Len(H.mem) + 1]

Do_attach_handle ==
    /\ CanAllocate(0, 1)
    /\ \E i \in CallerImBufs, f \in HandleFields :
           /\ ibufs[i][f] = NULL
           /\ Return(AttachHandle(Start, i, f), [Call("attach", i) EXCEPT !.slot = f])

Do_imb_addencodedbufferImBuf ==
    /\ CanAllocate(0, 1)
    /\ \E i \in CallerImBufs \cup {NULL}, failIn \in 0..1 :
           Return(imb_addencodedbufferImBuf([Start EXCEPT !.failIn = failIn], i),
                  Call("imb_addencodedbufferImBuf", i))

\* An encoder writes n bytes at the start of the encoded buffer of ImBuf i
\* and records them as the in-use region.
WriteEncoded(H, i, n) ==
    [H EXCEPT !.mem[H.ibufs[i].encoded_buffer.data].bytes = Norm(Fill(2, n) \o Drop(@, n)),
              !.ibufs[i].encoded_size = n]

Do_write_encoded ==
    /\ CanCall
    /\ \E i \in CallerImBufs, n \in 1..MaxEncoded :
           /\ ibufs[i].encoded_buffer.data # NULL
           /\ ibufs[i].encoded_size = 0
           /\ n <= ibufs[i].encoded_buffer_size
           /\ Return(WriteEncoded(Start, i, n), Call("write_encoded", i))

SeqNext ==
    \/ Do_IMB_allocImBuf
    \/ Do_IMB_refImBuf
    \/ Do_IMB_freeImBuf
    \/ Do_IMB_dupImBuf
    \/ Do_IMB_makeSingleUser
    \/ Do_IMB_assign_buffer
    \/ Do_IMB_assign_shared_buffer
    \/ Do_IMB_makemipmap
    \/ Do_attach_handle
    \/ Do_imb_addencodedbufferImBuf
    \/ Do_write_encoded

SeqSpec == SeqInit /\ [][SeqNext]_vars

----------------------------------------------------------------------------
(* Claims about the single caller (SeqSpec). last is the call that has     *)
(* just returned; Start is the heap it started from.                       *)

Owned(buffer) ==
    /\ buffer.data # NULL
    /\ buffer.ownership = IB_TAKE_OWNERSHIP
    /\ buffer.implicit_sharing = NULL

\* The call changed nothing but the refcounter of ImBuf i, by d.
OnlyRefcounterChanged(i, d) ==
    /\ ibufs' = [Start.ibufs EXCEPT ![i].refcounter = @ + d]
    /\ mem' = Start.mem
    /\ shr' = Start.shr
    /\ ub' = "none"

\* The call tore ImBuf i down: the struct, its owned slots and its handles
\* are freed once, its shared slots have let go of their data, its mipmaps
\* are released, and memory it did not own is as it was.
TornDown(i) ==
    /\ ibufs'[i].frees = 1
    /\ \A s \in BufferNames :
           /\ Owned(ibufs[i][s]) => mem'[ibufs[i][s].data].frees = 1
           /\ ibufs[i][s].implicit_sharing # NULL =>
                  shr'[ibufs[i][s].implicit_sharing].users
                      < shr[ibufs[i][s].implicit_sharing].users
           /\ (ibufs[i][s].data # NULL /\ ibufs[i][s].implicit_sharing = NULL
                   /\ ibufs[i][s].ownership = IB_DO_NOT_TAKE_OWNERSHIP) =>
                  mem'[ibufs[i][s].data] = mem[ibufs[i][s].data]
    /\ \A a \in 1..IMB_MIPMAP_LEVELS :
           ibufs[i].mipmap[a] # NULL =>
               IF ibufs[ibufs[i].mipmap[a]].refcounter > 0
               THEN /\ ibufs'[ibufs[i].mipmap[a]].frees = 0
                    /\ ibufs'[ibufs[i].mipmap[a]].refcounter
                           = ibufs[ibufs[i].mipmap[a]].refcounter - 1
               ELSE ibufs'[ibufs[i].mipmap[a]].frees = 1
    /\ \A f \in HandleFields : ibufs[i][f] # NULL => mem'[ibufs[i][f]].frees = 1
    /\ ub' = "none"

C4_Step ==
    /\ (last'.op = "IMB_refImBuf" /\ last'.ibuf # NULL) =>
           OnlyRefcounterChanged(last'.ibuf, 1)
    /\ (last'.op = "IMB_freeImBuf" /\ last'.ibuf # NULL) =>
           IF ibufs[last'.ibuf].refcounter > 0
           THEN OnlyRefcounterChanged(last'.ibuf, -1)
           ELSE TornDown(last'.ibuf)

\* C4: every IMB_refImBuf adds one to the refcounter and every IMB_freeImBuf
\* that finds it above 0 takes one off, neither changing or freeing anything
\* else (so N retains and N releases leave a fresh ImBuf at 0, alive, with
\* its slots, mipmaps and handles as they were); the release that finds the
\* refcounter at 0 tears the ImBuf down: owned slots, handles and the struct
\* freed once, the mipmap chain released.
C4_RetainReleaseBalance == [][C4_Step]_vars

\* A release has brought a retained ImBuf with a populated slot back to
\* refcounter 0, alive.
C4_Witness ==
    /\ last.op = "IMB_freeImBuf"
    /\ last.ibuf # NULL
    /\ ibufs[last.ibuf].frees = 0
    /\ ibufs[last.ibuf].refcounter = 0
    /\ Owned(ibufs[last.ibuf].byte_buffer)
    /\ mem[ibufs[last.ibuf].byte_buffer.data].frees = 0

\* In the ImBufs I, the slots of ImBuf a and ImBuf b have no block and no control block in
\* common.
NoSharedMemory(I, a, b) ==
    \A s \in BufferNames, t \in BufferNames :
        /\ I[a][s].data # NULL => I[a][s].data # I[b][t].data
        /\ I[a][s].implicit_sharing # NULL =>
               I[a][s].implicit_sharing # I[b][t].implicit_sharing

C5_Step ==
    (last'.op = "IMB_makeSingleUser" /\ last'.ibuf # NULL /\ ~last'.oom) =>
        IF ibufs[last'.ibuf].refcounter = 0
        THEN /\ last'.ret = last'.ibuf
             /\ ibufs' = Start.ibufs
             /\ mem' = Start.mem
             /\ shr' = Start.shr
        ELSE /\ last'.ret # NULL
             /\ last'.ret # last'.ibuf
             /\ ibufs'[last'.ret].frees = 0
             /\ ibufs'[last'.ret].refcounter = 0
             /\ NoSharedMemory(ibufs', last'.ret, last'.ibuf)
             /\ ibufs'[last'.ibuf].frees = 0
             /\ ibufs'[last'.ibuf].refcounter = ibufs[last'.ibuf].refcounter - 1

\* C5: IMB_makeSingleUser on an ImBuf with refcounter 0 returns the same
\* ImBuf and changes nothing; on one with refcounter c > 0 it returns a
\* distinct live ImBuf with refcounter 0 that shares no memory with the
\* source, which stays alive with refcounter c - 1 (no allocation failing).
C5_MakeSingleUser == [][C5_Step]_vars

\* The bytes of the slot s of ImBuf i that are in use.
SlotBytesInUse(i, s) ==
    IF s = "encoded_buffer" THEN ibufs[i].encoded_size ELSE SlotSize(i, s)

SlotContents(i, s) == Norm(Prefix(mem[ibufs[i][s].data].bytes, SlotBytesInUse(i, s)))

\* C6: in the ImBuf IMB_dupImBuf returns, every slot the source has populated
\* (byte, float, integer depth, float depth, encoded) is populated and holds
\* the bytes of the source's slot of the same kind (for the encoded buffer,
\* the bytes in use).
C6_DupCopiesEverySlot ==
    (last.op = "IMB_dupImBuf" /\ last.ret # NULL) =>
        \A s \in BufferNames :
            ibufs[last.ibuf][s].data # NULL =>
                /\ ibufs[last.ret][s].data # NULL
                /\ SlotContents(last.ret, s) = SlotContents(last.ibuf, s)

\* Every block and control block a slot of a live ImBuf other than i, or a
\* control block, points at.
BlocksOfOthers(i) ==
    {ibufs[j][s].data : j \in LiveImBufs \ {i}, s \in BufferNames}
        \cup {shr[h].data : h \in 1..Len(shr)}

\* Tearing ImBuf a down leaves the memory of the slots of ImBuf b as it is.
TeardownLeavesAlone(a, b) ==
    \A s \in BufferNames :
        ibufs[b][s].data # NULL =>
            /\ ImBufTeardown(Heap, a).mem[ibufs[b][s].data] = mem[ibufs[b][s].data]
            /\ ibufs[b][s].implicit_sharing # NULL =>
                   ImBufTeardown(Heap, a).shr[ibufs[b][s].implicit_sharing]
                       = shr[ibufs[b][s].implicit_sharing]

\* C7: every populated slot of the ImBuf IMB_dupImBuf returns is Owned, has
\* no sharing handle, and points at a live block that no slot of the source
\* (not-owned, owned or shared), no other slot and no control block points
\* at; tearing the duplicate down leaves the source's memory as it is, and
\* tearing the source down leaves the duplicate's.
C7_DupOwnsDistinctMemory ==
    (last.op = "IMB_dupImBuf" /\ last.ret # NULL) =>
        /\ \A s \in BufferNames :
               ibufs[last.ret][s].data # NULL =>
                   /\ Owned(ibufs[last.ret][s])
                   /\ mem[ibufs[last.ret][s].data].frees = 0
                   /\ ibufs[last.ret][s].data \notin BlocksOfOthers(last.ret)
                   /\ \A t \in BufferNames \ {s} :
                          ibufs[last.ret][s].data # ibufs[last.ret][t].data
        /\ TeardownLeavesAlone(last.ret, last.ibuf)
        /\ TeardownLeavesAlone(last.ibuf, last.ret)

\* IMB_dupImBuf has duplicated an ImBuf that has an owned, a shared and a
\* not-owned slot.
C7_Witness ==
    /\ last.op = "IMB_dupImBuf"
    /\ last.ret # NULL
    /\ ub = "none"
    /\ \E s \in BufferNames : Owned(ibufs[last.ibuf][s]) /\ Owned(ibufs[last.ret][s])
    /\ \E s \in BufferNames :
           /\ ibufs[last.ibuf][s].implicit_sharing # NULL
           /\ Owned(ibufs[last.ret][s])
    /\ \E s \in BufferNames :
           /\ ibufs[last.ibuf][s].data # NULL
           /\ ibufs[last.ibuf][s].implicit_sharing = NULL
           /\ ibufs[last.ibuf][s].ownership = IB_DO_NOT_TAKE_OWNERSHIP
           /\ Owned(ibufs[last.ret][s])

\* C8: the ImBuf IMB_dupImBuf returns has refcounter 0, no mipmaps (every
\* entry null, mip count 0), no DDS payload, no metadata and no
\* colour-management cache; its other scalar fields are the source's.
C8_DupStartsWithoutDerivedState ==
    (last.op = "IMB_dupImBuf" /\ last.ret # NULL) =>
        /\ ibufs[last.ret].refcounter = 0
        /\ ibufs[last.ret].mipmap = NoMipmaps
        /\ ibufs[last.ret].miptot = 0
        /\ ibufs[last.ret].dds_data = NULL
        /\ ibufs[last.ret].metadata = NULL
        /\ ibufs[last.ret].colormanage_cache = NULL
        /\ \A f \in {"x", "y", "channels", "planes", "flags", "encoded_size",
                     "encoded_buffer_size"} :
               ibufs[last.ret][f] = ibufs[last.ibuf][f]

\* C9: when an allocation fails during IMB_allocImBuf, the call returns NULL
\* and every ImBuf struct and every block the call allocated has been freed
\* exactly once.
C9_AllocFailureRollsBack ==
    (last.op = "IMB_allocImBuf" /\ last.oom) =>
        /\ last.ret = NULL
        /\ ub = "none"
        /\ \A i \in (last.ibufs0 + 1)..Len(ibufs) : ibufs[i].frees = 1
        /\ \A b \in (last.mem0 + 1)..Len(mem) : mem[b].frees = 1

\* An allocation of IMB_allocImBuf failed after the struct and a slot had
\* been allocated.
C9_Witness ==
    /\ last.op = "IMB_allocImBuf"
    /\ last.oom
    /\ last.ret = NULL
    /\ Len(ibufs) > last.ibufs0
    /\ Len(mem) > last.mem0

\* The slots IMB_allocImBuf(x, y, planes, flags) is asked for.
RequestedFlags(planes, flags) ==
    (flags \cap PixelFlags)
        \cup (IF "IB_rect" \in flags /\ planes > PlanesWithoutZ THEN {"IB_zbuf"} ELSE {})

\* C10: when no allocation fails, IMB_allocImBuf(x, y, planes, flags) returns
\* an ImBuf in which exactly the requested slots (those of flags, and the
\* integer depth slot when the byte slot is requested and planes > 32) are
\* populated, Owned and flagged.
C10_AllocPopulatesRequestedSlots ==
    (last.op = "IMB_allocImBuf" /\ ~last.oom) =>
        /\ last.ret # NULL
        /\ \A s \in PixelBuffers :
               IF FlagOf(s) \in RequestedFlags(last.planes, last.flags)
               THEN Owned(ibufs[last.ret][s]) /\ FlagOf(s) \in ibufs[last.ret].flags
               ELSE ibufs[last.ret][s].data = NULL

----------------------------------------------------------------------------
(* PixelsSpec: imb_alloc_pixels applied once to arguments around the edges *)
(* of the size type.                                                       *)

PixelDims == {0, 1, 2, 3}
PixelChannels == {0, 1, 4, 5}
PixelTypeSizes == {0, 1, 4, 2^(SizeBits - 2), SIZE_MAX}

\* No thread is inside IMB_refImBuf or IMB_freeImBuf.
NoThreads ==
    /\ refcounter_spin = NULL
    /\ pc = [t \in Threads |-> "idle"]
    /\ tmp = [t \in Threads |-> 0]
    /\ needs_free = [t \in Threads |-> FALSE]
    /\ held = [t \in Threads |-> 0]

IdleThreads ==
    /\ NoThreads
    /\ hist = [c0 |-> 0, nref |-> 0, nfree |-> 0, zero |-> 0, dec |-> 0,
               misuse |-> FALSE]

PixelsInit ==
    /\ ibufs = <<>>
    /\ mem = <<>>
    /\ shr = <<>>
    /\ ub = "none"
    /\ \E x \in PixelDims, y \in PixelDims, channels \in PixelChannels,
          typesize \in PixelTypeSizes :
           last = [op |-> "arguments", x |-> x, y |-> y, channels |-> channels,
                   typesize |-> typesize, ret |-> NULL, oom |-> FALSE]
    /\ IdleThreads

Do_imb_alloc_pixels ==
    /\ last.op = "arguments"
    /\ \E failIn \in 0..1 :
           /\ ibufs' = ibufs
           /\ mem' = imb_alloc_pixels([Heap EXCEPT !.failIn = failIn], last.x, last.y,
                                      last.channels, last.typesize).mem
           /\ shr' = shr
           /\ ub' = imb_alloc_pixels([Heap EXCEPT !.failIn = failIn], last.x, last.y,
                                     last.channels, last.typesize).ub
           /\ last' = [last EXCEPT
                  !.op = "imb_alloc_pixels",
                  !.ret = imb_alloc_pixels([Heap EXCEPT !.failIn = failIn], last.x,
                                           last.y, last.channels, last.typesize).ret,
                  !.oom = imb_alloc_pixels([Heap EXCEPT !.failIn = failIn], last.x,
                                           last.y, last.channels, last.typesize).oom]
    /\ UNCHANGED threadVars

PixelsNext == Do_imb_alloc_pixels

PixelsSpec == PixelsInit /\ [][PixelsNext]_vars

\* a * b, or SIZE_MAX + 1 when the product is not representable as a size.
SatMul(a, b) ==
    IF a = 0 \/ b = 0 THEN 0
    ELSE IF a > SIZE_MAX \div b THEN SIZE_MAX + 1
    ELSE a * b

\* The mathematical product of the arguments of the last call (SIZE_MAX + 1
\* standing for every product that is not representable).
PixelProduct == SatMul(SatMul(SatMul(last.x, last.y), last.channels), last.typesize)

\* C11: imb_alloc_pixels(x, y, channels, typesize) returns zeroed memory of
\* exactly x*y*channels*typesize bytes whenever that product is representable
\* as a size (zero factors and the product equal to SIZE_MAX included), and
\* returns NULL without allocating whenever it is not.
C11_AllocPixelsExact ==
    (last.op = "imb_alloc_pixels" /\ ~last.oom) =>
        IF PixelProduct <= SIZE_MAX
        THEN /\ ub = "none"
             /\ last.ret # NULL
             /\ mem[last.ret].size = PixelProduct
             /\ mem[last.ret].bytes = Fill(0, PixelProduct)
        ELSE /\ ub = "none"
             /\ last.ret = NULL
             /\ mem = <<>>

----------------------------------------------------------------------------
(* Copy-on-write and stealing *)

\* MEM_dupallocN(p): a fresh block with the size and the bytes of block p,
\* or NULL.
MEM_dupallocN(H, p) ==
    IF AllocationFails(H) THEN AllocationFailed(H)
    ELSE [AllocationCounted(IF H.mem[p].frees > 0 THEN SetUB(H, "use_after_free") ELSE H)
          EXCEPT !.mem = Append(@, Block(H.mem[p].size, H.mem[p].bytes, "MEM")),
                 !.ret = Len(H.mem) + 1]

\* imb_make_writeable_buffer after MEM_dupallocN (lines 118-124): H.ret is
\* the copy, which is not tested for NULL.
imb_make_writeable_buffer_take(H, i, s) ==
    IF H.ibufs[i][s].implicit_sharing # NULL
    THEN [remove_user_and_delete_if_last(H, H.ibufs[i][s].implicit_sharing) EXCEPT
              !.ibufs[i][s] = [data |-> H.ret, ownership |-> IB_TAKE_OWNERSHIP,
                               implicit_sharing |-> NULL]]
    ELSE [H EXCEPT !.ibufs[i][s].data = H.ret,
                   !.ibufs[i][s].ownership = IB_TAKE_OWNERSHIP]

imb_make_writeable_buffer(H, i, s) ==
    IF H.ibufs[i][s].data = NULL THEN H
    ELSE IF H.ibufs[i][s].ownership = IB_DO_NOT_TAKE_OWNERSHIP
    THEN imb_make_writeable_buffer_take(MEM_dupallocN(H, H.ibufs[i][s].data), i, s)
    ELSE H

\* IMB_make_writable_byte_buffer and IMB_make_writable_float_buffer, s being
\* the slot each is written for.
IMB_make_writable_buffer(H, i, s) ==
    IF i = NULL THEN SetUB(H, "null_dereference")
    ELSE imb_make_writeable_buffer(H, i, s)

\* BLI_assert(!"..."): aborts where assertions are compiled in.
BLI_assert_fails(H) ==
    IF H.onUB = "crash" THEN SetUB(H, "assertion_failed") ELSE H

\* imb_steal_buffer_data without the reset of the slot.
imb_steal_buffer_data_keeps_slot(H, i, s) ==
    IF H.ibufs[i][s].data = NULL THEN [H EXCEPT !.ret = NULL]
    ELSE IF H.ibufs[i][s].ownership = IB_DO_NOT_TAKE_OWNERSHIP
    THEN [BLI_assert_fails(H) EXCEPT !.ret = NULL]
    ELSE [H EXCEPT !.ret = H.ibufs[i][s].data]

imb_steal_buffer_data(H, i, s) ==
    IF H.ibufs[i][s].data = NULL THEN [H EXCEPT !.ret = NULL]
    ELSE IF H.ibufs[i][s].ownership = IB_DO_NOT_TAKE_OWNERSHIP
    THEN [BLI_assert_fails(H) EXCEPT !.ret = NULL]
    ELSE [H EXCEPT !.ret = H.ibufs[i][s].data,
                   !.ibufs[i][s].data = NULL,
                   !.ibufs[i][s].ownership = IB_DO_NOT_TAKE_OWNERSHIP]

\* IMB_steal_byte_buffer and IMB_steal_float_buffer, s being the slot each
\* is written for.
IMB_steal_buffer(H, i, s) ==
    IF i = NULL THEN SetUB(H, "null_dereference")
    ELSE ClearFlag(imb_steal_buffer_data(H, i, s), i, FlagOf(s))

IMB_steal_encoded_buffer(H, i) ==
    IF i = NULL THEN SetUB(H, "null_dereference")
    ELSE ClearFlag([imb_steal_buffer_data(H, i, "encoded_buffer") EXCEPT
                        !.ibufs[i].encoded_size = 0,
                        !.ibufs[i].encoded_buffer_size = 0],
                   i, "IB_mem")

----------------------------------------------------------------------------
(* Growth of the encoded buffer. encoded_size and encoded_buffer_size are  *)
(* of type uint, and so is newsize.                                        *)

UINT_MAX == 2^UintBits - 1

\* imb_enlargeencodedbufferImBuf, lines 401-404.
enlarge_newsize(encoded_buffer_size) ==
    IF (2 * encoded_buffer_size) % (UINT_MAX + 1) < EncodedMinSize
    THEN EncodedMinSize
    ELSE (2 * encoded_buffer_size) % (UINT_MAX + 1)

\* Lines 411-416: H.ret is new_buffer.data.
imb_enlargeencodedbufferImBuf_copy(H, i) ==
    IF H.ibufs[i].encoded_buffer.data # NULL
    THEN memcpy(H, H.ret, H.ibufs[i].encoded_buffer.data, H.ibufs[i].encoded_size)
    ELSE [H EXCEPT !.ibufs[i].encoded_size = 0]

\* Lines 418-424.
imb_enlargeencodedbufferImBuf_swap(H, i, newsize) ==
    SetFlag([imb_free_buffer(H, i, "encoded_buffer") EXCEPT
                 !.ibufs[i].encoded_buffer =
                     [data |-> H.ret, ownership |-> IB_TAKE_OWNERSHIP,
                      implicit_sharing |-> NULL],
                 !.ibufs[i].encoded_buffer_size = newsize,
                 !.ok = TRUE],
            i, "IB_mem")

\* The function after a failed allocation, had it let go of the old buffer.
imb_enlargeencodedbufferImBuf_end_frees(H, i, newsize) ==
    IF H.ret = NULL
    THEN [imb_free_buffer(H, i, "encoded_buffer") EXCEPT !.ok = FALSE]
    ELSE imb_enlargeencodedbufferImBuf_swap(
             imb_enlargeencodedbufferImBuf_copy(H, i), i, newsize)

\* imb_enlargeencodedbufferImBuf after the allocation of new_buffer.
imb_enlargeencodedbufferImBuf_end(H, i, newsize) ==
    IF H.ret = NULL THEN [H EXCEPT !.ok = FALSE]
    ELSE imb_enlargeencodedbufferImBuf_swap(
             imb_enlargeencodedbufferImBuf_copy(H, i), i, newsize)

imb_enlargeencodedbufferImBuf(H, i) ==
    IF i = NULL THEN [H EXCEPT !.ok = FALSE]
    ELSE IF H.ibufs[i].encoded_buffer_size < H.ibufs[i].encoded_size
    THEN [H EXCEPT !.ok = FALSE]
    ELSE imb_enlargeencodedbufferImBuf_end(
             imb_alloc_pixels(H, enlarge_newsize(H.ibufs[i].encoded_buffer_size),
                              1, 1, SizeofUint8),
             i, enlarge_newsize(H.ibufs[i].encoded_buffer_size))

----------------------------------------------------------------------------
(* SlotSpec: one caller working on the slots of two ImBufs, with other     *)
(* holders of the implicitly shared data it attaches. Addresses are not    *)
(* handed out again. hist.holders[h] counts the users of control block h   *)
(* that are not slots of an ImBuf.                                         *)

EmptyHeap ==
    [ibufs |-> <<>>, mem |-> <<>>, shr |-> <<>>, ub |-> "none",
     failIn |-> 0, onUB |-> "crash", oom |-> FALSE, ret |-> NULL, ok |-> TRUE]

\* Two calls of IMB_allocImBuf(1, 1, 32, 0).
SlotHeap ==
    IMB_allocImBuf(IMB_allocImBuf(EmptyHeap, 1, 1, PlanesWithoutZ, {}),
                   1, 1, PlanesWithoutZ, {})

\* How a slot holds its memory.
SlotMode(buffer) ==
    IF buffer.implicit_sharing # NULL THEN "shared"
    ELSE IF buffer.data = NULL THEN "empty"
    ELSE IF buffer.ownership = IB_TAKE_OWNERSHIP THEN "owned"
    ELSE "borrowed"

SlotCall(op, i, s) ==
    [op |-> op, ibuf |-> i, slot |-> s,
     old |-> IF i = NULL \/ s = "none" THEN EmptyBuffer ELSE ibufs[i][s],
     was |-> IF i = NULL \/ s = "none" THEN "none" ELSE SlotMode(ibufs[i][s]),
     handles |-> IF i = NULL THEN {}
                 ELSE {ibufs[i][b].implicit_sharing : b \in BufferNames} \ {NULL},
     payload |-> NULL, handle |-> NULL, ownership |-> "none",
     ret |-> NULL, ok |-> TRUE, oom |-> FALSE, n |-> 0]

SlotReturn(H, call, holders) ==
    /\ ibufs' = H.ibufs
    /\ mem' = H.mem
    /\ shr' = H.shr
    /\ ub' = H.ub
    /\ last' = [call EXCEPT !.ret = H.ret, !.ok = H.ok, !.oom = H.oom,
                            !.n = last.n + 1]
    /\ hist' = [holders |-> holders]
    /\ UNCHANGED <<refcounter_spin, pc, tmp, needs_free, held>>

SlotInit ==
    /\ ibufs = SlotHeap.ibufs
    /\ mem = SlotHeap.mem
    /\ shr = SlotHeap.shr
    /\ ub = "none"
    /\ last = SlotCall("none", NULL, "none")
    /\ hist = [holders |-> <<>>]
    /\ NoThreads

CanSlotCall == ub = "none" /\ last.n < MaxSlotCalls

\* The free function of each slot.
FreeSlot(H, i, s) ==
    CASE s = "byte_buffer" -> imb_freerectImBuf(H, i)
      [] s = "float_buffer" -> imb_freerectfloatImBuf(H, i)
      [] s = "z_buffer" -> IMB_freezbufImBuf(H, i)
      [] s = "float_z_buffer" -> IMB_freezbuffloatImBuf(H, i)
      [] s = "encoded_buffer" -> freeencodedbufferImBuf(H, i)

Do_free_slot ==
    /\ CanSlotCall
    /\ \E i \in LiveImBufs \cup {NULL}, s \in BufferNames :
           SlotReturn(FreeSlot(Heap, i, s), SlotCall("free", i, s), hist.holders)

\* IMB_assign_*_buffer with NULL or with memory of the caller.
Do_assign_slot ==
    /\ CanSlotCall
    /\ \E i \in LiveImBufs \cup {NULL}, s \in PixelBuffers,
          ownership \in {IB_TAKE_OWNERSHIP, IB_DO_NOT_TAKE_OWNERSHIP} :
           \/ SlotReturn(IMB_assign_buffer(Heap, i, s, NULL, ownership),
                         [SlotCall("assign", i, s) EXCEPT !.ownership = ownership],
                         hist.holders)
           \/ /\ i # NULL
              /\ SlotReturn(IMB_assign_buffer(
                                CallerBlock(Heap, SlotSize(i, s),
                                            IF ownership = IB_TAKE_OWNERSHIP
                                            THEN "MEM" ELSE "extern"),
                                i, s, Len(mem) + 1, ownership),
                            [SlotCall("assign", i, s) EXCEPT !.ownership = ownership,
                                                            !.payload = Len(mem) + 1],
                            hist.holders)

\* IMB_assign_shared_*_buffer with NULL, with shared data another holder has
\* just made, or with shared data that has a user besides the slot assigned
\* to (the handle the caller passes stays valid during the call).
Do_assign_shared_slot ==
    /\ CanSlotCall
    /\ \E i \in LiveImBufs \cup {NULL}, s \in PixelBuffers \ {"z_buffer"} :
           \/ SlotReturn(IMB_assign_shared_buffer(Heap, i, s, NULL, NULL),
                         SlotCall("assign_shared", i, s), hist.holders)
           \/ /\ i # NULL
              /\ SlotReturn(IMB_assign_shared_buffer(SharedBlock(Heap, SlotSize(i, s)),
                                                     i, s, Len(mem) + 1, Len(shr) + 1),
                            [SlotCall("assign_shared", i, s) EXCEPT
                                 !.payload = Len(mem) + 1, !.handle = Len(shr) + 1],
                            Append(hist.holders, 1))
           \/ \E h \in 1..Len(shr) :
                  /\ i # NULL
                  /\ shr[h].users > (IF ibufs[i][s].implicit_sharing = h THEN 1 ELSE 0)
                  /\ mem[shr[h].data].size = SlotSize(i, s)
                  /\ SlotReturn(IMB_assign_shared_buffer(Heap, i, s, shr[h].data, h),
                                [SlotCall("assign_shared", i, s) EXCEPT
                                     !.payload = shr[h].data, !.handle = h],
                                hist.holders)

Do_make_writable_slot ==
    /\ CanSlotCall
    /\ \E i \in LiveImBufs \cup {NULL}, s \in {"byte_buffer", "float_buffer"},
          failIn \in 0..1 :
           SlotReturn(IMB_make_writable_buffer([Heap EXCEPT !.failIn = failIn], i, s),
                      SlotCall("make_writable", i, s), hist.holders)

Do_steal_slot ==
    /\ CanSlotCall
    /\ \E i \in LiveImBufs \cup {NULL}, onUB \in {"crash", "skip"} :
           \/ \E s \in {"byte_buffer", "float_buffer"} :
                  SlotReturn(IMB_steal_buffer([Heap EXCEPT !.onUB = onUB], i, s),
                             SlotCall("steal", i, s), hist.holders)
           \/ SlotReturn(IMB_steal_encoded_buffer([Heap EXCEPT !.onUB = onUB], i),
                         SlotCall("steal", i, "encoded_buffer"), hist.holders)

Do_addencoded_slot ==
    /\ CanSlotCall
    /\ \E i \in LiveImBufs \cup {NULL}, failIn \in 0..1 :
           SlotReturn(imb_addencodedbufferImBuf([Heap EXCEPT !.failIn = failIn], i),
                      SlotCall("addencoded", i, "encoded_buffer"), hist.holders)

\* The caller releases its one reference to an ImBuf.
Do_teardown ==
    /\ CanSlotCall
    /\ \E i \in LiveImBufs \cup {NULL} :
           SlotReturn(IMB_freeImBuf(Heap, i), SlotCall("IMB_freeImBuf", i, "none"),
                      hist.holders)

\* Another holder of shared data lets go of it.
Do_holder_release ==
    /\ CanSlotCall
    /\ \E h \in 1..Len(shr) :
           /\ hist.holders[h] > 0
           /\ SlotReturn(remove_user_and_delete_if_last(Heap, h),
                         [SlotCall("holder_release", NULL, "none") EXCEPT !.handle = h],
                         [hist.holders EXCEPT ![h] = @ - 1])

\* The other entry points, called with nullptr.
NullCalls ==
    {"IMB_refImBuf", "IMB_dupImBuf", "IMB_makeSingleUser", "addzbufImBuf",
     "addzbuffloatImBuf", "imb_addrectImBuf", "imb_addrectfloatImBuf",
     "imb_enlargeencodedbufferImBuf"}

NullCall(H, op) ==
    CASE op = "IMB_refImBuf" -> IMB_refImBuf(H, NULL)
      [] op = "IMB_dupImBuf" -> IMB_dupImBuf(H, NULL)
      [] op = "IMB_makeSingleUser" -> IMB_makeSingleUser(H, NULL)
      [] op = "addzbufImBuf" -> addzbufImBuf(H, NULL)
      [] op = "addzbuffloatImBuf" -> addzbuffloatImBuf(H, NULL)
      [] op = "imb_addrectImBuf" -> imb_addrectImBuf(H, NULL)
      [] op = "imb_addrectfloatImBuf" -> imb_addrectfloatImBuf(H, NULL, DefaultChannels)
      [] op = "imb_enlargeencodedbufferImBuf" -> imb_enlargeencodedbufferImBuf(H, NULL)

Do_null_call ==
    /\ CanSlotCall
    /\ \E op \in NullCalls :
           SlotReturn(NullCall(Heap, op), SlotCall(op, NULL, "none"), hist.holders)

SlotNext ==
    \/ Do_null_call
    \/ Do_free_slot
    \/ Do_assign_slot
    \/ Do_assign_shared_slot
    \/ Do_make_writable_slot
    \/ Do_steal_slot
    \/ Do_addencoded_slot
    \/ Do_teardown
    \/ Do_holder_release

SlotSpec == SlotInit /\ [][SlotNext]_vars

----------------------------------------------------------------------------
(* Claims about the slot operations (SlotSpec). In a step, last' is the    *)
(* call that returns and the unprimed heap is the one it started from.     *)

\* imb_free_buffer on this slot content releases the memory block.
ReleasesBlock(buffer) ==
    \/ buffer.implicit_sharing # NULL /\ shr[buffer.implicit_sharing].users = 1
    \/ /\ buffer.implicit_sharing = NULL
       /\ buffer.data # NULL
       /\ buffer.ownership = IB_TAKE_OWNERSHIP

\* The step releases the slot content `buffer` by its ownership, makes
\* control block `attach` (NULL: none) one more user, and does nothing else
\* to the memory blocks and control blocks there were.
ReleasedByOwnership(buffer, attach) ==
    /\ \A p \in 1..Len(mem) :
           mem'[p] = [mem[p] EXCEPT
                          !.frees = @ + IF p = buffer.data /\ ReleasesBlock(buffer)
                                        THEN 1 ELSE 0]
    /\ \A h \in 1..Len(shr) :
           shr'[h] = [shr[h] EXCEPT
                          !.users = @ - (IF h = buffer.implicit_sharing THEN 1 ELSE 0)
                                      + (IF h = attach THEN 1 ELSE 0),
                          !.deleted = @ + IF h = buffer.implicit_sharing /\ shr[h].users = 1
                                          THEN 1 ELSE 0]
    /\ ub' = "none"

C12_Step ==
    (last'.op = "free" /\ last'.ibuf # NULL) =>
        /\ ibufs'[last'.ibuf][last'.slot] = EmptyBuffer
        /\ ReleasedByOwnership(ibufs[last'.ibuf][last'.slot], NULL)
        /\ Len(mem') = Len(mem)
        /\ Len(shr') = Len(shr)
        /\ ReleasesBlock(ibufs[last'.ibuf][last'.slot]) =>
               mem'[ibufs[last'.ibuf][last'.slot].data].frees = 1

\* C12: the free function of a slot releases the slot's memory by its
\* ownership: a shared slot drops one user of its control block and the
\* memory is freed only if that was the last user, an owned slot's memory is
\* freed exactly once, a not-owned slot's memory is not freed; in every case,
\* and for an empty slot, the slot ends empty.
C12_FreeByOwnership == [][C12_Step]_vars

\* A shared slot has been freed while another holder keeps the data alive.
C12_Witness ==
    /\ last.op = "free" /\ last.was = "shared"
    /\ ibufs[last.ibuf][last.slot] = EmptyBuffer
    /\ shr[last.old.implicit_sharing].users = 1
    /\ hist.holders[last.old.implicit_sharing] = 1
    /\ mem[last.old.data].frees = 0

\* The bytes a slot content points at, in the memory M.
BufferContents(M, buffer) ==
    [size |-> M[buffer.data].size, bytes |-> M[buffer.data].bytes]

\* The step leaves the heap as it is.
HeapUnchanged == ibufs' = ibufs /\ mem' = mem /\ shr' = shr /\ ub' = ub

C13_Step ==
    (last'.op = "make_writable" /\ last'.ibuf # NULL) =>
        LET old == ibufs[last'.ibuf][last'.slot]
            new == ibufs'[last'.ibuf][last'.slot]
        IN /\ ub' = "none"
           /\ old.data # NULL =>
                  /\ new.data # NULL
                  /\ new.ownership = IB_TAKE_OWNERSHIP
                  /\ new.implicit_sharing = NULL
                  /\ mem'[new.data].frees = 0
                  /\ BufferContents(mem', new) = BufferContents(mem, old)
           /\ SlotMode(old) = "shared" =>
                  /\ shr'[old.implicit_sharing].users = shr[old.implicit_sharing].users - 1
                  /\ BufferContents(mem', old) = BufferContents(mem, old)
           /\ SlotMode(old) = "borrowed" => mem'[old.data] = mem[old.data]
           /\ SlotMode(old) \in {"owned", "empty"} => HeapUnchanged
           /\ (last.op = "make_writable" /\ last.ibuf = last'.ibuf
                                         /\ last.slot = last'.slot) => HeapUnchanged

\* C13: IMB_make_writable_byte_buffer / IMB_make_writable_float_buffer leave
\* a non-empty slot owned, without handle and with the contents it had; a
\* shared slot has dropped one user of its control block and the shared
\* memory is unmodified; a borrowed slot's memory is neither freed nor
\* modified; an owned or empty slot is unchanged; a second call in a row
\* changes nothing.
C13_MakeWritable == [][C13_Step]_vars

C14_Step ==
    (last'.op = "steal" /\ last'.ibuf # NULL) =>
        /\ SlotMode(ibufs[last'.ibuf][last'.slot]) = "owned" =>
               /\ ub' = "none"
               /\ last'.ret = ibufs[last'.ibuf][last'.slot].data
               /\ mem' = mem
               /\ shr' = shr
               /\ ibufs'[last'.ibuf][last'.slot] = EmptyBuffer
               /\ FlagOf(last'.slot) \notin ibufs'[last'.ibuf].flags
               /\ last'.slot = "encoded_buffer" =>
                      /\ ibufs'[last'.ibuf].encoded_size = 0
                      /\ ibufs'[last'.ibuf].encoded_buffer_size = 0
        /\ (last.op = "steal" /\ last.was = "owned" /\ last.ibuf = last'.ibuf
                              /\ last.slot = last'.slot) =>
               /\ last'.ret = NULL
               /\ HeapUnchanged

\* C14: IMB_steal_byte_buffer / IMB_steal_float_buffer /
\* IMB_steal_encoded_buffer on an owned slot return the slot's pointer
\* without freeing the memory, leave the slot empty and its flag cleared
\* (the encoded slot's in-use size and capacity 0); a second steal right
\* after it returns NULL and changes nothing.
C14_StealOwned == [][C14_Step]_vars

\* The encoded buffer has been stolen: the caller has the block, unfreed.
C14_Witness ==
    /\ last.op = "steal" /\ last.was = "owned" /\ last.slot = "encoded_buffer"
    /\ last.ret # NULL
    /\ last.ret = last.old.data
    /\ mem[last.ret].frees = 0
    /\ ibufs[last.ibuf].encoded_buffer = EmptyBuffer

C15_Step ==
    (last'.op = "assign_shared" /\ last'.ibuf # NULL) =>
        /\ ReleasedByOwnership(ibufs[last'.ibuf][last'.slot], last'.handle)
        /\ (last'.payload # NULL /\ last'.handle # NULL) =>
               /\ ibufs'[last'.ibuf][last'.slot] =
                      [data |-> last'.payload, ownership |-> IB_DO_NOT_TAKE_OWNERSHIP,
                       implicit_sharing |-> last'.handle]
               /\ shr'[last'.handle].data = last'.payload
               /\ last'.handle > Len(shr) =>
                      shr'[last'.handle].users = hist'.holders[last'.handle] + 1
               /\ FlagOf(last'.slot) \in ibufs'[last'.ibuf].flags
        /\ last'.payload = NULL =>
               /\ ibufs'[last'.ibuf][last'.slot] = EmptyBuffer
               /\ FlagOf(last'.slot) \notin ibufs'[last'.ibuf].flags

\* C15: IMB_assign_shared_byte_buffer / _float_buffer / _float_z_buffer
\* release the slot's previous content by the rules of the free; with a
\* payload and a handle the slot then points at the payload with the handle
\* attached and ownership not-owned, the handle has one more user and the
\* flag is set; with a null payload the slot is empty and the flag cleared.
C15_AssignShared == [][C15_Step]_vars

\* Shared data another holder also has is attached to a slot that owned a
\* block: the block is freed and the control block has its two users.
C15_Witness ==
    /\ last.op = "assign_shared" /\ last.was = "owned" /\ last.handle # NULL
    /\ ibufs[last.ibuf][last.slot].implicit_sharing = last.handle
    /\ ibufs[last.ibuf][last.slot].data = last.payload
    /\ mem[last.old.data].frees = 1
    /\ shr[last.handle].users = 2

C16_Step ==
    (last'.op = "assign" /\ last'.ibuf # NULL) =>
        /\ ReleasedByOwnership(ibufs[last'.ibuf][last'.slot], NULL)
        /\ Len(shr') = Len(shr)
        /\ last'.payload # NULL =>
               /\ ibufs'[last'.ibuf][last'.slot] =
                      [data |-> last'.payload, ownership |-> last'.ownership,
                       implicit_sharing |-> NULL]
               /\ Len(mem') = last'.payload
               /\ mem'[last'.payload].frees = 0
               /\ FlagOf(last'.slot) \in ibufs'[last'.ibuf].flags
        /\ last'.payload = NULL =>
               /\ ibufs'[last'.ibuf][last'.slot] = EmptyBuffer
               /\ Len(mem') = Len(mem)
               /\ FlagOf(last'.slot) \notin ibufs'[last'.ibuf].flags

\* C16: IMB_assign_byte_buffer / _float_buffer / _z_buffer / _float_z_buffer
\* release the slot's previous content by the rules of the free, whatever
\* its mode; with a payload the slot then holds the caller's pointer itself
\* with the caller's ownership, no handle and the flag set; with a null
\* payload the slot is empty and the flag cleared.
C16_AssignOwned == [][C16_Step]_vars

\* Borrowed caller memory replaces shared data: the slot has let go of its
\* user and holds the caller's pointer.
C16_Witness ==
    /\ last.op = "assign" /\ last.was = "shared" /\ last.payload # NULL
    /\ last.ownership = IB_DO_NOT_TAKE_OWNERSHIP
    /\ ibufs[last.ibuf][last.slot].data = last.payload
    /\ ibufs[last.ibuf][last.slot].ownership = IB_DO_NOT_TAKE_OWNERSHIP
    /\ shr[last.old.implicit_sharing].users = 1
    /\ mem[last.old.data].frees = 0

----------------------------------------------------------------------------
(* EncSpec: an encoder filling and growing the encoded buffer of one       *)
(* ImBuf.                                                                  *)

EncHeap == IMB_allocImBuf(EmptyHeap, 1, 1, PlanesWithoutZ, {})

EncInit ==
    /\ ibufs = EncHeap.ibufs
    /\ mem = EncHeap.mem
    /\ shr = EncHeap.shr
    /\ ub = "none"
    /\ last = SlotCall("none", NULL, "none")
    /\ hist = [holders |-> <<>>]
    /\ NoThreads

CanEncCall == ub = "none" /\ last.n < MaxEncCalls

Do_enc_add ==
    /\ CanEncCall
    /\ \E i \in LiveImBufs \cup {NULL}, failIn \in 0..1 :
           SlotReturn(imb_addencodedbufferImBuf([Heap EXCEPT !.failIn = failIn], i),
                      SlotCall("add", i, "encoded_buffer"), hist.holders)

Do_enc_enlarge ==
    /\ CanEncCall
    /\ \E i \in LiveImBufs \cup {NULL}, failIn \in 0..1 :
           SlotReturn(imb_enlargeencodedbufferImBuf([Heap EXCEPT !.failIn = failIn], i),
                      SlotCall("enlarge", i, "encoded_buffer"), hist.holders)

\* The encoder fills the first byte, or the whole capacity, of the buffer.
Do_enc_write ==
    /\ CanEncCall
    /\ \E i \in LiveImBufs : \E n \in {1, ibufs[i].encoded_buffer_size} :
           /\ ibufs[i].encoded_buffer.data # NULL
           /\ n <= mem[ibufs[i].encoded_buffer.data].size
           /\ SlotReturn(WriteEncoded(Heap, i, n),
                         SlotCall("write", i, "encoded_buffer"), hist.holders)

\* A caller records more bytes in use than the capacity (the fields are
\* public).
Do_enc_miscount ==
    /\ CanEncCall
    /\ \E i \in LiveImBufs :
           /\ ibufs[i].encoded_size <= ibufs[i].encoded_buffer_size
           /\ SlotReturn([Heap EXCEPT !.ibufs[i].encoded_size =
                                          ibufs[i].encoded_buffer_size + 1],
                         SlotCall("miscount", i, "encoded_buffer"), hist.holders)

EncNext ==
    \/ Do_enc_add
    \/ Do_enc_enlarge
    \/ Do_enc_write
    \/ Do_enc_miscount

EncSpec == EncInit /\ [][EncNext]_vars

C17_Step ==
    (last'.op = "enlarge" /\ last'.ibuf # NULL /\ last'.ok) =>
        /\ ub' = "none"
        /\ ibufs'[last'.ibuf].encoded_buffer_size
               >= 2 * ibufs[last'.ibuf].encoded_buffer_size
        /\ ibufs'[last'.ibuf].encoded_buffer_size >= EncodedMinSize
        /\ mem'[ibufs'[last'.ibuf].encoded_buffer.data].size
               = ibufs'[last'.ibuf].encoded_buffer_size
        /\ ibufs'[last'.ibuf].encoded_size = ibufs[last'.ibuf].encoded_size
        /\ ibufs[last'.ibuf].encoded_buffer.data # NULL =>
               Prefix(mem'[ibufs'[last'.ibuf].encoded_buffer.data].bytes,
                      ibufs[last'.ibuf].encoded_size)
                   = Prefix(mem[ibufs[last'.ibuf].encoded_buffer.data].bytes,
                            ibufs[last'.ibuf].encoded_size)

\* C17: a successful imb_enlargeencodedbufferImBuf leaves a capacity of at
\* least twice the old one and at least 10000, for every old capacity the
\* uint field can hold; the in-use size is unchanged and the first in-use
\* bytes of the new buffer are those of the old one.
C17_EnlargeGrows == [][C17_Step]_vars

C18_Step ==
    (last'.op = "enlarge" /\ last'.ibuf # NULL /\ ~last'.ok) =>
        /\ \/ ibufs[last'.ibuf].encoded_size > ibufs[last'.ibuf].encoded_buffer_size
           \/ last'.oom
        /\ ibufs' = ibufs
        /\ \A p \in 1..Len(mem) : mem'[p] = mem[p]
        /\ shr' = shr
        /\ ub' = "none"

\* C18: when imb_enlargeencodedbufferImBuf returns false, because the in-use
\* size exceeds the capacity or because the allocation fails, the encoded
\* slot, the in-use size, the capacity and the flags are as before the call
\* and the old buffer has not been freed.
C18_EnlargeFailureChangesNothing == [][C18_Step]_vars

\* The allocation of the larger buffer has failed for a buffer with bytes
\* in use: the old buffer is still there.
C18_Witness ==
    /\ last.op = "enlarge" /\ last.ibuf # NULL /\ ~last.ok /\ last.oom
    /\ ibufs[last.ibuf].encoded_buffer = last.old
    /\ last.old.data # NULL
    /\ ibufs[last.ibuf].encoded_size > 0
    /\ mem[last.old.data].frees = 0

\* The entry points that return a boolean.
ReturnsBool ==
    {"addzbufImBuf", "addzbuffloatImBuf", "imb_addrectImBuf", "imb_addrectfloatImBuf",
     "imb_enlargeencodedbufferImBuf", "addencoded"}

C19_Step ==
    (last'.ibuf = NULL /\ last'.op # "holder_release") =>
        /\ HeapUnchanged
        /\ ub' = "none"
        /\ last'.ret = NULL
        /\ last'.op \in ReturnsBool => ~last'.ok

\* C19: every public entry point called with a null ImBuf returns at once
\* without reading or writing any state, returning null or false where it
\* returns a value: IMB_freeImBuf, IMB_refImBuf, IMB_makeSingleUser,
\* IMB_dupImBuf and the allocate, free, steal, make-writable, assign and
\* assign-shared functions of the slots.
C19_NullIsNoOp == [][C19_Step]_vars

\* The slots of live ImBufs attached to control block h.
AttachedSlots(h) ==
    {is \in LiveImBufs \X BufferNames : ibufs[is[1]][is[2]].implicit_sharing = h}

\* C20: the user count of a shared control block is the number of slots
\* attached to it plus its other holders, whatever the ImBuf refcounters;
\* the shared memory is freed exactly when the count has reached zero, so it
\* stays valid after an ImBuf attached to it is destroyed while another
\* holder remains.
C20_SharedUserCount ==
    \A h \in 1..Len(shr) :
        /\ shr[h].users = Cardinality(AttachedSlots(h)) + hist.holders[h]
        /\ shr[h].users >= 0
        /\ shr[h].deleted = (IF shr[h].users = 0 THEN 1 ELSE 0)
        /\ mem[shr[h].data].frees = (IF shr[h].users = 0 THEN 1 ELSE 0)
        /\ \A is \in AttachedSlots(h) : ibufs[is[1]][is[2]].data = shr[h].data

\* An ImBuf attached to shared data has been destroyed while a slot of the
\* other ImBuf and another holder keep the data alive.
C20_Witness ==
    /\ last.op = "IMB_freeImBuf" /\ last.ibuf # NULL
    /\ ibufs[last.ibuf].frees = 1
    /\ \E h \in last.handles :
           /\ shr[h].users = 2
           /\ hist.holders[h] = 1
           /\ Cardinality(AttachedSlots(h)) = 1
           /\ mem[shr[h].data].frees = 0

----------------------------------------------------------------------------
(* ImBufs made from pixel buffers of the caller *)

\* BLI_assert(MEM_allocN_len(buffer) == size)
BLI_assert_len(H, p, size) ==
    IF H.mem[p].size = size THEN H ELSE BLI_assert_fails(H)

\* IMB_allocFromBufferOwn, lines 625-630.
IMB_allocFromBufferOwn_float(H, i, float_buffer, w, h) ==
    IF float_buffer = NULL THEN H
    ELSE IMB_assign_buffer(BLI_assert_len(H, float_buffer, SizeofFloat * 4 * w * h),
                           i, "float_buffer", float_buffer, IB_TAKE_OWNERSHIP)

\* IMB_allocFromBufferOwn, lines 632-635.
IMB_allocFromBufferOwn_byte(H, i, byte_buffer, w, h) ==
    IF byte_buffer = NULL THEN H
    ELSE IMB_assign_buffer(BLI_assert_len(H, byte_buffer, SizeofUint8 * 4 * w * h),
                           i, "byte_buffer", byte_buffer, IB_TAKE_OWNERSHIP)

\* IMB_allocFromBufferOwn after IMB_allocImBuf, whose result H.ret is not
\* tested before ibuf->channels is written.
IMB_allocFromBufferOwn_fill(H, byte_buffer, float_buffer, w, h, channels) ==
    IF H.ret = NULL THEN SetUB(H, "null_dereference")
    ELSE IMB_allocFromBufferOwn_byte(
             IMB_allocFromBufferOwn_float(
                 [H EXCEPT !.ibufs[H.ret].channels = channels],
                 H.ret, float_buffer, w, h),
             H.ret, byte_buffer, w, h)

IMB_allocFromBufferOwn(H, byte_buffer, float_buffer, w, h, channels) ==
    IF byte_buffer = NULL /\ float_buffer = NULL THEN [H EXCEPT !.ret = NULL]
    ELSE IMB_allocFromBufferOwn_fill(IMB_allocImBuf(H, w, h, PlanesWithoutZ, {}),
                                     byte_buffer, float_buffer, w, h, channels)

\* IMB_allocFromBuffer, lines 655-667: imb_alloc_buffer, its result not
\* tested, then memcpy from the caller's buffer. H.ret stays the ImBuf.
IMB_allocFromBuffer_copy(H, i, s, buffer, w, h, type_size) ==
    IF buffer = NULL THEN H
    ELSE [memcpy(imb_alloc_buffer(H, i, s, w, h, 4, type_size),
                 imb_alloc_buffer(H, i, s, w, h, 4, type_size).ibufs[i][s].data,
                 buffer, type_size * 4 * w * h)
          EXCEPT !.ret = i, !.ok = TRUE]

IMB_allocFromBuffer_fill(H, byte_buffer, float_buffer, w, h, channels) ==
    IF H.ret = NULL THEN SetUB(H, "null_dereference")
    ELSE IMB_allocFromBuffer_copy(
             IMB_allocFromBuffer_copy(
                 [H EXCEPT !.ibufs[H.ret].channels = channels],
                 H.ret, "float_buffer", float_buffer, w, h, SizeofFloat),
             H.ret, "byte_buffer", byte_buffer, w, h, SizeofUint8)

IMB_allocFromBuffer(H, byte_buffer, float_buffer, w, h, channels) ==
    IF byte_buffer = NULL /\ float_buffer = NULL THEN [H EXCEPT !.ret = NULL]
    ELSE IMB_allocFromBuffer_fill(IMB_allocImBuf(H, w, h, PlanesWithoutZ, {}),
                                  byte_buffer, float_buffer, w, h, channels)

----------------------------------------------------------------------------
(* LoadSpec: a loader that makes ImBufs from pixel buffers it has read,    *)
(* keeps the encoded file contents with them, and duplicates them.         *)

LoadInit ==
    /\ ibufs = <<>>
    /\ mem = <<>>
    /\ shr = <<>>
    /\ ub = "none"
    /\ last = SlotCall("none", NULL, "none")
    /\ hist = [holders |-> <<>>]
    /\ NoThreads

CanLoadCall == ub = "none" /\ last.n < MaxLoadCalls

CanLoadImBuf == CanLoadCall /\ Len(ibufs) < MaxLoadBufs

LoadChannels == {1, DefaultChannels}

\* The caller's pixel buffers: a byte buffer (when has_byte) and then a
\* float buffer (when has_float), each of 4 channels of w * h pixels.
LoadBuffers(H, has_byte, has_float, w, h, from) ==
    [H EXCEPT !.mem =
        @ \o (IF has_byte
              THEN <<Block(SizeofUint8 * 4 * w * h, Fill(1, SizeofUint8 * 4 * w * h), from)>>
              ELSE <<>>)
          \o (IF has_float
              THEN <<Block(SizeofFloat * 4 * w * h, Fill(1, SizeofFloat * 4 * w * h), from)>>
              ELSE <<>>)]

LoadByte(has_byte) == IF has_byte THEN Len(mem) + 1 ELSE NULL

LoadFloat(has_byte, has_float) ==
    IF ~has_float THEN NULL ELSE IF has_byte THEN Len(mem) + 2 ELSE Len(mem) + 1

Do_IMB_allocFromBufferOwn ==
    /\ CanLoadImBuf
    /\ \E has_byte \in BOOLEAN, has_float \in BOOLEAN, w \in {MaxDim}, h \in {MaxDim},
          channels \in LoadChannels, failIn \in 0..1 :
           SlotReturn(IMB_allocFromBufferOwn(
                          [LoadBuffers(Heap, has_byte, has_float, w, h, "MEM")
                               EXCEPT !.failIn = failIn],
                          LoadByte(has_byte), LoadFloat(has_byte, has_float),
                          w, h, channels),
                      SlotCall("IMB_allocFromBufferOwn", NULL, "none"), hist.holders)

Do_IMB_allocFromBuffer ==
    /\ CanLoadImBuf
    /\ \E has_byte \in BOOLEAN, has_float \in BOOLEAN, w \in {MaxDim}, h \in {MaxDim},
          channels \in LoadChannels, failIn \in 0..3, onUB \in {"crash", "skip"} :
           SlotReturn(IMB_allocFromBuffer(
                          [LoadBuffers(Heap, has_byte, has_float, w, h, "extern")
                               EXCEPT !.failIn = failIn, !.onUB = onUB],
                          LoadByte(has_byte), LoadFloat(has_byte, has_float),
                          w, h, channels),
                      SlotCall("IMB_allocFromBuffer", NULL, "none"), hist.holders)

Do_load_addencoded ==
    /\ CanLoadCall
    /\ \E i \in LiveImBufs, failIn \in 0..1 :
           SlotReturn(imb_addencodedbufferImBuf([Heap EXCEPT !.failIn = failIn], i),
                      SlotCall("add", i, "encoded_buffer"), hist.holders)

Do_load_enlarge ==
    /\ CanLoadCall
    /\ \E i \in LiveImBufs, failIn \in 0..1 :
           SlotReturn(imb_enlargeencodedbufferImBuf([Heap EXCEPT !.failIn = failIn], i),
                      SlotCall("enlarge", i, "encoded_buffer"), hist.holders)

\* The loader fills the first byte, or the whole capacity, of the buffer.
Do_load_write ==
    /\ CanLoadCall
    /\ \E i \in LiveImBufs : \E n \in {1, ibufs[i].encoded_buffer_size} :
           /\ ibufs[i].encoded_buffer.data # NULL
           /\ n <= mem[ibufs[i].encoded_buffer.data].size
           /\ SlotReturn(WriteEncoded(Heap, i, n),
                         SlotCall("write", i, "encoded_buffer"), hist.holders)

Do_load_steal ==
    /\ CanLoadCall
    /\ \E i \in LiveImBufs, onUB \in {"crash", "skip"} :
           SlotReturn(IMB_steal_encoded_buffer([Heap EXCEPT !.onUB = onUB], i),
                      SlotCall("steal", i, "encoded_buffer"), hist.holders)

Do_load_free ==
    /\ CanLoadCall
    /\ \E i \in LiveImBufs, s \in BufferNames :
           SlotReturn(FreeSlot(Heap, i, s), SlotCall("free", i, s), hist.holders)

Do_load_dup ==
    /\ CanLoadImBuf
    /\ \E i \in LiveImBufs, failIn \in 0..1, onUB \in {"crash", "skip"} :
           SlotReturn(IMB_dupImBuf([Heap EXCEPT !.failIn = failIn, !.onUB = onUB], i),
                      SlotCall("IMB_dupImBuf", i, "none"), hist.holders)

LoadNext ==
    \/ Do_IMB_allocFromBufferOwn
    \/ Do_IMB_allocFromBuffer
    \/ Do_load_addencoded
    \/ Do_load_enlarge
    \/ Do_load_write
    \/ Do_load_steal
    \/ Do_load_free
    \/ Do_load_dup

LoadSpec == LoadInit /\ [][LoadNext]_vars

----------------------------------------------------------------------------
(* Flags and data pointers *)

\* The flag of slot s of ImBuf i is set exactly when the slot has data.
FlagMatchesData(i, s) ==
    (FlagOf(s) \in ibufs[i].flags) <=> (ibufs[i][s].data # NULL)

\* C21: after any sequence of public operations that ran without undefined
\* behaviour, for each of the five slots of every live ImBuf the flag bit
\* (IB_rect, IB_rectfloat, IB_zbuf, IB_zbuffloat, IB_mem) is set if and only
\* if the slot's data pointer is non-null.
C21_FlagIffData ==
    ub = "none" =>
        \A i \in LiveImBufs : \A s \in BufferNames : FlagMatchesData(i, s)

----------------------------------------------------------------------------
(* The legal states of a slot *)

\* Empty, borrowed, owned or shared, by the three fields of the slot.
LegalSlot(buffer) ==
    \/ buffer.data = NULL /\ buffer.implicit_sharing = NULL
           /\ buffer.ownership = IB_DO_NOT_TAKE_OWNERSHIP
    \/ buffer.data # NULL /\ buffer.implicit_sharing = NULL
           /\ buffer.ownership = IB_DO_NOT_TAKE_OWNERSHIP
    \/ buffer.data # NULL /\ buffer.implicit_sharing = NULL
           /\ buffer.ownership = IB_TAKE_OWNERSHIP
    \/ buffer.data # NULL /\ buffer.implicit_sharing # NULL
           /\ buffer.ownership = IB_DO_NOT_TAKE_OWNERSHIP

\* C22: in every reachable state without undefined behaviour every slot of
\* every live ImBuf is empty, borrowed, owned or shared: never owned and
\* shared at once, never a handle or the owned mode with null data.
C22_SlotStatesLegal ==
    ub = "none" =>
        \A i \in LiveImBufs : \A s \in BufferNames : LegalSlot(ibufs[i][s])

----------------------------------------------------------------------------
(* MipSpec: one caller, an ImBuf with byte and float pixels (ImBuf 1) and  *)
(* its mipmap levels. The caller may keep a reference to a level.          *)

MipHeap == IMB_allocImBuf(EmptyHeap, 1, 1, PlanesWithoutZ, {"IB_rect", "IB_rectfloat"})

MipInit ==
    /\ ibufs = MipHeap.ibufs
    /\ mem = MipHeap.mem
    /\ shr = MipHeap.shr
    /\ ub = "none"
    /\ last = SlotCall("none", NULL, "none")
    /\ hist = [holders |-> <<>>]
    /\ NoThreads

CanMipCall == ub = "none" /\ last.n < MaxMipCalls /\ TheBuf \in LiveImBufs

MipSlots == {"byte_buffer", "float_buffer"}

\* The levels of ImBuf i: the non-null entries of its mipmap array.
MipLevels(I, i) == {I[i].mipmap[a] : a \in 1..IMB_MIPMAP_LEVELS} \ {NULL}

\* A level is made for an entry that has none; miptot is the level made last.
Do_mip_make ==
    /\ CanMipCall
    /\ \E a \in 1..IMB_MIPMAP_LEVELS :
           /\ ibufs[TheBuf].mipmap[a] = NULL
           /\ SlotReturn(MakeMipmap_set(
                             IMB_allocImBuf(Heap, 1, 1, PlanesWithoutZ, {"IB_rect"}),
                             TheBuf, a),
                         SlotCall("IMB_makemipmap", TheBuf, "none"), hist.holders)

\* The caller takes a reference to a level.
Do_mip_ref ==
    /\ CanMipCall
    /\ \E m \in MipLevels(ibufs, TheBuf) :
           /\ ibufs[m].refcounter = 0
           /\ SlotReturn(IMB_refImBuf(Heap, m), SlotCall("IMB_refImBuf", m, "none"),
                         hist.holders)

Do_imb_freemipmapImBuf ==
    /\ CanMipCall
    /\ SlotReturn(imb_freemipmapImBuf(Heap, TheBuf),
                  SlotCall("imb_freemipmapImBuf", TheBuf, "none"), hist.holders)

Do_mip_free ==
    /\ CanMipCall
    /\ \E s \in MipSlots :
           SlotReturn(FreeSlot(Heap, TheBuf, s), SlotCall("free", TheBuf, s), hist.holders)

Do_mip_add ==
    /\ CanMipCall
    /\ \E failIn \in 0..1 :
           \/ SlotReturn(imb_addrectImBuf([Heap EXCEPT !.failIn = failIn], TheBuf),
                         SlotCall("add", TheBuf, "byte_buffer"), hist.holders)
           \/ SlotReturn(imb_addrectfloatImBuf([Heap EXCEPT !.failIn = failIn], TheBuf,
                                               DefaultChannels),
                         SlotCall("add", TheBuf, "float_buffer"), hist.holders)

Do_mip_assign ==
    /\ CanMipCall
    /\ \E s \in MipSlots, ownership \in {IB_TAKE_OWNERSHIP, IB_DO_NOT_TAKE_OWNERSHIP} :
           SlotReturn(IMB_assign_buffer(
                          CallerBlock(Heap, SlotSize(TheBuf, s),
                                      IF ownership = IB_TAKE_OWNERSHIP
                                      THEN "MEM" ELSE "extern"),
                          TheBuf, s, Len(mem) + 1, ownership),
                      [SlotCall("assign", TheBuf, s) EXCEPT !.ownership = ownership,
                                                           !.payload = Len(mem) + 1],
                      hist.holders)

Do_mip_assign_shared ==
    /\ CanMipCall
    /\ \E s \in MipSlots :
           SlotReturn(IMB_assign_shared_buffer(SharedBlock(Heap, SlotSize(TheBuf, s)),
                                               TheBuf, s, Len(mem) + 1, Len(shr) + 1),
                      [SlotCall("assign_shared", TheBuf, s) EXCEPT
                           !.payload = Len(mem) + 1, !.handle = Len(shr) + 1],
                      Append(hist.holders, 1))

Do_mip_steal ==
    /\ CanMipCall
    /\ \E s \in MipSlots, onUB \in {"crash", "skip"} :
           SlotReturn(IMB_steal_buffer([Heap EXCEPT !.onUB = onUB], TheBuf, s),
                      SlotCall("steal", TheBuf, s), hist.holders)

Do_mip_destroy ==
    /\ CanMipCall
    /\ SlotReturn(IMB_freeImBuf(Heap, TheBuf), SlotCall("IMB_freeImBuf", TheBuf, "none"),
                  hist.holders)

MipNext ==
    \/ Do_mip_make
    \/ Do_mip_ref
    \/ Do_imb_freemipmapImBuf
    \/ Do_mip_free
    \/ Do_mip_add
    \/ Do_mip_assign
    \/ Do_mip_assign_shared
    \/ Do_mip_steal
    \/ Do_mip_destroy

MipSpec == MipInit /\ [][MipNext]_vars

----------------------------------------------------------------------------
(* Mipmap teardown *)

\* The blocks the slots of ImBuf m own.
OwnedBlocks(I, m) ==
    {I[m][s].data : s \in {b \in BufferNames : I[m][b].data # NULL
                                               /\ I[m][b].implicit_sharing = NULL
                                               /\ I[m][b].ownership = IB_TAKE_OWNERSHIP}}

C23_Step ==
    last'.op = "imb_freemipmapImBuf" =>
        /\ ub' = "none"
        /\ \A a \in 1..IMB_MIPMAP_LEVELS : ibufs'[TheBuf].mipmap[a] = NULL
        /\ ibufs'[TheBuf].miptot = 0
        /\ \A s \in BufferNames : ibufs'[TheBuf][s] = ibufs[TheBuf][s]
        /\ \A m \in MipLevels(ibufs, TheBuf) :
               IF ibufs[m].refcounter > 0
               THEN /\ ibufs'[m] = [ibufs[m] EXCEPT !.refcounter = @ - 1]
                    /\ \A p \in OwnedBlocks(ibufs, m) : mem'[p] = mem[p]
               ELSE /\ ibufs[m].frees = 0
                    /\ ibufs'[m].frees = 1
                    /\ \A p \in OwnedBlocks(ibufs, m) : mem'[p].frees = 1

\* C23: imb_freemipmapImBuf releases every non-null entry of the whole
\* mipmap array, not only the first miptot, exactly once through
\* IMB_freeImBuf, and leaves every entry null and miptot 0: a level with
\* refcounter > 0 is only decremented and survives with its pixels, a level
\* with refcounter 0 is torn down and its pixels are freed once.
C23_FreeMipmap == [][C23_Step]_vars

\* imb_freemipmapImBuf has returned: of two levels the ImBuf had, the one
\* the caller kept a reference to is alive and the other is torn down.
C23_Witness ==
    /\ last.op = "imb_freemipmapImBuf"
    /\ ub = "none"
    /\ \E m1 \in 2..Len(ibufs), m2 \in 2..Len(ibufs) :
           /\ ibufs[m1].frees = 1
           /\ ibufs[m2].frees = 0 /\ ibufs[m2].refcounter = 0
           /\ ibufs[m2].byte_buffer.data # NULL
           /\ mem[ibufs[m2].byte_buffer.data].frees = 0

\* Every entry of the mipmap array of ImBuf i is null and miptot is 0.
MipmapsGone(I, i) ==
    /\ \A a \in 1..IMB_MIPMAP_LEVELS : I[i].mipmap[a] = NULL
    /\ I[i].miptot = 0

\* The call that returns released or replaced pixel data the ImBuf had.
ReplacesPixels(call) ==
    /\ call.op \in {"free", "add", "assign", "assign_shared", "steal"}
    /\ call.slot \in MipSlots
    /\ call.old.data # NULL

C24_Step ==
    (ub' = "none" /\ (ReplacesPixels(last') \/ last'.op = "IMB_freeImBuf")) =>
        MipmapsGone(ibufs', TheBuf)

\* C24: whenever the byte or float pixel data of an ImBuf is released or
\* replaced (free, add over existing data, assign owned, assign shared,
\* steal) or the ImBuf is destroyed, its mipmap chain is torn down in the
\* same operation: every entry null and miptot 0.
C24_PixelsGoMipmapsGo == [][C24_Step]_vars

\* The calls that tear the mipmap chain down with the pixels.
FreesMipmaps(call) ==
    \/ call.op = "free" /\ call.slot \in MipSlots
    \/ call.op = "add" /\ call.slot = "float_buffer" /\ call.old.data # NULL
    \/ call.op = "IMB_freeImBuf"

\* The calls that replace or hand out pixels and leave the mipmap chain.
KeepsMipmaps(call) ==
    \/ call.op \in {"assign", "assign_shared", "steal"} /\ call.slot \in MipSlots
    \/ call.op = "add" /\ call.slot = "byte_buffer"

C24_Amended_Step ==
    ub' = "none" =>
        /\ FreesMipmaps(last') => MipmapsGone(ibufs', TheBuf)
        /\ KeepsMipmaps(last') =>
               /\ ibufs'[TheBuf].mipmap = ibufs[TheBuf].mipmap
               /\ ibufs'[TheBuf].miptot = ibufs[TheBuf].miptot
               /\ \A m \in MipLevels(ibufs, TheBuf) : ibufs'[m] = ibufs[m]

\* C24 (amended): the mipmap chain is torn down (every entry null, miptot 0)
\* by imb_freerectImBuf, by imb_freerectfloatImBuf, by imb_addrectfloatImBuf
\* over existing float data and when the ImBuf is destroyed; imb_addrectImBuf,
\* IMB_assign_*_buffer, IMB_assign_shared_*_buffer and IMB_steal_*_buffer
\* leave the mipmap array, miptot and the levels as they were.
C24_Amended == [][C24_Amended_Step]_vars

\* The byte pixels of an ImBuf with a level have been freed: the level is
\* torn down and the array is empty.
C24_Witness ==
    /\ last.op = "free" /\ last.slot = "byte_buffer" /\ last.old.data # NULL
    /\ ub = "none"
    /\ \E m \in 2..Len(ibufs) : ibufs[m].frees = 1
    /\ MipmapsGone(ibufs, TheBuf)

----------------------------------------------------------------------------
(* Size and capacity of the encoded buffer *)

\* The encoded fields of ImBuf i agree with its encoded slot.
EncodedConsistent(I, M, i) ==
    /\ I[i].encoded_size <= I[i].encoded_buffer_size
    /\ I[i].encoded_buffer.data # NULL =>
           I[i].encoded_buffer_size = M[I[i].encoded_buffer.data].size
    /\ I[i].encoded_buffer.data = NULL =>
           I[i].encoded_buffer_size = 0 /\ I[i].encoded_size = 0

AllEncodedConsistent(I, M) ==
    \A i \in {j \in 1..Len(I) : I[j].frees = 0} : EncodedConsistent(I, M, i)

\* The calls C25 is about.
EncodedCall(call) ==
    \/ call.op \in {"add", "enlarge", "steal", "free"} /\ call.slot = "encoded_buffer"
    \/ call.op = "IMB_dupImBuf"

C25_Step ==
    (EncodedCall(last') /\ ub' = "none" /\ AllEncodedConsistent(ibufs, mem)) =>
        AllEncodedConsistent(ibufs', mem')

\* C25: imb_addencodedbufferImBuf, imb_enlargeencodedbufferImBuf,
\* IMB_steal_encoded_buffer, the encoded free and IMB_dupImBuf, called on
\* ImBufs whose encoded fields are consistent, leave them consistent: the
\* in-use size is at most the recorded capacity, the capacity of a non-empty
\* encoded slot is the size allocated, and both are 0 when the slot is empty.
C25_EncodedConsistent == [][C25_Step]_vars

----------------------------------------------------------------------------
(* The copies of IMB_dupImBuf *)

C26_Step ==
    last'.op = "IMB_dupImBuf" => ub' # "heap_overflow"

\* C26: every copy made by IMB_dupImBuf stays inside its destination, for
\* every channel count of the source and every in-use size and capacity of
\* its encoded buffer.
C26_DupCopiesInBounds == [][C26_Step]_vars

----------------------------------------------------------------------------
(* MsuSpec: every thread holds one reference to ImBuf 1 (refcounter =      *)
(* NThreads - 1) and calls IMB_makeSingleUser on it once. The call is split *)
(* at the lock, the read of refcounter, the unlock, the duplication, and   *)
(* the steps of the IMB_freeImBuf that follows. The duplication reads the  *)
(* struct outside the lock; the refcounter it may read while another       *)
(* thread stores it is overwritten with 0 before the duplicate is used.    *)

\* IMB_makeSingleUser, line 318.
is_single_or_pair(rc) == rc <= 1
is_single(rc) == rc = 0

MsuInit ==
    /\ ibufs = <<ThreadedImBuf(NThreads - 1)>>
    /\ mem = <<Block(ByteChannels * SizeofUint8, Fill(0, ByteChannels * SizeofUint8), "MEM")>>
    /\ shr = <<>>
    /\ ub = "none"
    /\ last = NoCall
    /\ refcounter_spin = NULL
    /\ pc = [t \in Threads |-> "idle"]
    /\ tmp = [t \in Threads |-> 0]
    /\ needs_free = [t \in Threads |-> FALSE]
    /\ held = [t \in Threads |-> 1]
    /\ hist = [c0 |-> NThreads - 1, nref |-> 0, nfree |-> 0, zero |-> 0, dec |-> 0,
               misuse |-> FALSE, rval |-> [t \in Threads |-> NULL]]

\* A thread enters IMB_makeSingleUser with its reference.
Call_IMB_makeSingleUser(t) ==
    /\ pc[t] = "idle" /\ held[t] = 1 /\ ub = "none"
    /\ pc' = [pc EXCEPT ![t] = "msu_lock"]
    /\ held' = [held EXCEPT ![t] = 0]
    /\ needs_free' = [needs_free EXCEPT ![t] = FALSE]
    /\ UNCHANGED <<heapVars, last, refcounter_spin, tmp, hist>>

\* IMB_makeSingleUser, line 317.
msu_lock(t) ==
    /\ pc[t] = "msu_lock"
    /\ spin_is_free(refcounter_spin)
    /\ refcounter_spin' = t
    /\ pc' = [pc EXCEPT ![t] = "msu_test"]
    /\ UNCHANGED <<heapVars, last, tmp, needs_free, held, hist>>

\* IMB_makeSingleUser, line 318: the read of ibuf->refcounter.
msu_test(t) ==
    /\ pc[t] = "msu_test"
    /\ \E v \in LoadRefcounter : tmp' = [tmp EXCEPT ![t] = v]
    /\ ub' = AccessImBuf
    /\ pc' = [pc EXCEPT ![t] = "msu_unlock"]
    /\ UNCHANGED <<ibufs, mem, shr, last, refcounter_spin, needs_free, held, hist>>

\* IMB_makeSingleUser, lines 319-322: the unlock, and the return of ibuf
\* itself when it had a single user.
msu_unlock(t) ==
    /\ pc[t] = "msu_unlock"
    /\ refcounter_spin' = NULL
    /\ IF is_single(tmp[t])
       THEN /\ pc' = [pc EXCEPT ![t] = "idle"]
            /\ hist' = [hist EXCEPT !.rval[t] = TheBuf]
       ELSE /\ pc' = [pc EXCEPT ![t] = "msu_dup"]
            /\ UNCHANGED hist
    /\ UNCHANGED <<heapVars, last, tmp, needs_free, held>>

\* IMB_makeSingleUser, lines 324-326: IMB_dupImBuf and IMB_metadata_copy,
\* which read the struct and its pixels. rval is what the call will return
\* once its IMB_freeImBuf(ibuf) has run.
msu_dup(t) ==
    /\ pc[t] = "msu_dup"
    /\ \E failIn \in 0..2 :
         LET H == IF ibufs[TheBuf].frees > 0
                  THEN [SetUB(Heap, "use_after_free") EXCEPT !.ret = NULL]
                  ELSE [IMB_metadata_copy(
                            IMB_dupImBuf([Heap EXCEPT !.failIn = failIn], TheBuf),
                            IMB_dupImBuf([Heap EXCEPT !.failIn = failIn], TheBuf).ret,
                            TheBuf)
                        EXCEPT !.ret = IMB_dupImBuf([Heap EXCEPT !.failIn = failIn],
                                                    TheBuf).ret]
         IN /\ ibufs' = H.ibufs /\ mem' = H.mem /\ shr' = H.shr /\ ub' = H.ub
            /\ hist' = [hist EXCEPT !.rval[t] = H.ret]
    /\ pc' = [pc EXCEPT ![t] = "free_lock"]
    /\ UNCHANGED <<last, refcounter_spin, tmp, needs_free, held>>

MsuNext ==
    \E t \in Threads :
        \/ Call_IMB_makeSingleUser(t)
        \/ msu_lock(t)
        \/ msu_test(t)
        \/ msu_unlock(t)
        \/ msu_dup(t)
        \/ BLI_spin_lock(t)
        \/ free_test(t)
        \/ free_store(t)
        \/ BLI_spin_unlock(t)
        \/ free_teardown(t)

MsuSpec == MsuInit /\ [][MsuNext]_vars

----------------------------------------------------------------------------
(* Concurrent IMB_makeSingleUser *)

\* The call of thread t has returned.
MsuReturned(t) == pc[t] = "idle" /\ held[t] = 0

\* C27: when every holder of an ImBuf calls IMB_makeSingleUser on its own
\* reference, in any interleaving of the unlocked gap between the refcount
\* check and the release: no two callers are returned the same object, no
\* duplication reads the source after its teardown (no use after free), and
\* the source and its memory are freed at most once.
C27_MakeSingleUser ==
    /\ ub = "none"
    /\ \A t1 \in Threads, t2 \in Threads :
           (t1 # t2 /\ MsuReturned(t1) /\ MsuReturned(t2) /\ hist.rval[t1] # NULL)
               => hist.rval[t1] # hist.rval[t2]
    /\ \A t \in Threads : (MsuReturned(t) /\ hist.rval[t] # NULL) =>
                              ibufs[hist.rval[t]].frees = 0
    /\ ibufs[TheBuf].frees <= 1
    /\ AllBlocksFreedAtMostOnce

\* Every caller has returned with a duplicate of its own and the source has
\* been torn down by the last release.
C27_Witness ==
    /\ \A t \in Threads : MsuReturned(t) /\ hist.rval[t] \notin {NULL, TheBuf}
    /\ ibufs[TheBuf].frees = 1
    /\ ub = "none"

====
